---- MODULE Spec2Model ----
(***************************************************************************)
(* A model of mathtable-latex: the tkz-tab code generator                  *)
(* (utils/latexGenerator, the middle part of src/src/App.jsx) and the      *)
(* table description the editor hands to it (TableGenerator.jsx).          *)
(*                                                                         *)
(* Strings are TLA+ strings; Len, \o and SubSeq act on them character by   *)
(* character, so a generated macro call is the very text the code builds.  *)
(* JS arrays are sequences; the code's 0-based index i is kept and At      *)
(* reads element i.  A Unicode glyph of the conversion table is written as *)
(* one upper-case ASCII letter (I for the infinity sign, P for pi, ...);   *)
(* text typed by the user is lower case, digits and punctuation.           *)
(***************************************************************************)
EXTENDS Integers, Sequences, FiniteSets, TLC

VARIABLES td, called, tabVar, tabLine, fullDoc, snippet, tabInit
VARIABLES text, symbol, symbolAgain, wrapped
VARIABLES fullDocAgain, snippetAgain
VARIABLES configs, selectedTableType, edits
VARIABLES mounted, memoLatexCode, timers, renderTimeout, requests, issued, lastIssued
VARIABLES renderedImage, appRenderedImage, loading, error
VARIABLES isOpen, loaded
VARIABLES jobs, workDirs, files

\* A table description and what each generator returned for it.
genVars == <<td, called, tabVar, tabLine, fullDoc, snippet, tabInit>>
\* A text and what toLatexSymbol and wrapMath returned for it.
symVars == <<text, symbol, symbolAgain, wrapped>>
\* What a second call of each document generator returned.
againVars == <<fullDocAgain, snippetAgain>>
\* The editor: the configuration of each table type, the table type selected
\* in the application, and the number of user actions handled so far.
editorVars == <<configs, selectedTableType, edits>>
\* The preview: whether the panel is mounted, the latexCode its useMemo
\* holds for the table description of the last render, the timers that
\* are set and have neither fired nor been cleared (each with its id and
\* the latexCode its callback closes over), the timer id held by
\* renderTimeoutRef (0 for null), the render requests in flight, how many
\* were issued and the LaTeX of the last one, the image shown, the image the
\* application was given, and the loading and error states.
previewVars == <<mounted, memoLatexCode, timers, renderTimeout, requests, issued, lastIssued, renderedImage, appRenderedImage, loading, error>>
\* The template menu: whether the dropdown is open, and the templates handed
\* to onSelectTemplate so far (none, or the last one).
templateVars == <<isOpen, loaded>>
\* The render proxy: the requests received (each with its position in the
\* handler and what it gathered so far), the work directories that exist in
\* the temporary directory, and the files they hold.
proxyVars == <<jobs, workDirs, files>>
extraVars == <<templateVars, proxyVars>>
restVars == <<againVars, editorVars, previewVars, extraVars>>
otherVars == <<symVars, restVars>>
vars == <<genVars, otherVars>>

(***************************************************************************)
(* Bounds of the model.                                                    *)
(***************************************************************************)
MaxPoints == 3
MaxExprs == 2
MaxLen == 3
MaxEdits == 3
MaxColumnEdits == 4
MaxToggles == 4
MaxRowEdits == 3
MaxKindChanges == 4
MaxJobs == 2
MaxTypeChanges == 2
MaxRequests == 3

(***************************************************************************)
(* String and array helpers (JS built-ins used by the generator).          *)
(***************************************************************************)
Min(S) == CHOOSE m \in S : \A k \in S : m <= k

\* String.prototype.indexOf: the first 1-based position of sub in s, 0 if none.
IndexOf(s, sub) ==
    LET ps == {p \in 1..(Len(s) - Len(sub) + 1) : SubSeq(s, p, p + Len(sub) - 1) = sub}
    IN  IF ps = {} THEN 0 ELSE Min(ps)

\* String.prototype.includes
Includes(s, sub) == IndexOf(s, sub) # 0

RECURSIVE ReplaceAll(_, _, _)
\* String.prototype.replace with a global regex of one escaped literal.
ReplaceAll(s, sym, latex) ==
    LET p == IndexOf(s, sym)
    IN  IF p = 0 THEN s
        ELSE SubSeq(s, 1, p - 1) \o latex
             \o ReplaceAll(SubSeq(s, p + Len(sym), Len(s)), sym, latex)

RECURSIVE Join(_, _)
\* Array.prototype.join
Join(parts, sep) ==
    IF Len(parts) = 0 THEN ""
    ELSE IF Len(parts) = 1 THEN parts[1]
    ELSE parts[1] \o sep \o Join(Tail(parts), sep)

\* arr[i] for a 0-based i.  Outside the array JS yields undefined, which the
\* generator only ever tests for truthiness or compares with a code, exactly
\* as it would the empty string.
At(arr, i) == IF (i + 1) \in DOMAIN arr THEN arr[i + 1] ELSE ""

(***************************************************************************)
(* toLatexSymbol and wrapMath.                                             *)
(***************************************************************************)
conversions ==
    << <<"I", "\\infty">>, <<"+I", "+\\infty">>, <<"-I", "-\\infty">>,
       <<"P", "\\pi">>, <<"Q", "\\sqrt">>, <<"L", "\\leq">>, <<"G", "\\geq">>,
       <<"N", "\\neq">>, <<"M", "\\pm">>, <<"X", "\\times">>, <<"V", "\\div">>,
       <<"A", "\\alpha">>, <<"B", "\\beta">>, <<"C", "\\gamma">>,
       <<"E", "\\delta">>, <<"T", "\\theta">>, <<"K", "\\lambda">>,
       <<"U", "\\mu">>, <<"S", "\\sigma">>, <<"F", "\\phi">>, <<"W", "\\omega">> >>

RECURSIVE convertFrom(_, _)
\* for (const [symbol, latex] of Object.entries(conversions)), from entry k on
convertFrom(result, k) ==
    IF k > Len(conversions) THEN result
    ELSE LET replaced == ReplaceAll(result, conversions[k][1], conversions[k][2])
         IN  IF replaced = result THEN convertFrom(result, k + 1)
             ELSE convertFrom(replaced, k + 1)

\* toLatexSymbol without the test for a backslash.
toLatexSymbol_AlwaysConvert(value) ==
    IF value = "" THEN "" ELSE convertFrom(value, 1)

toLatexSymbol(value) ==
    IF value = "" THEN ""
    ELSE IF Includes(value, "\\") THEN value
    ELSE convertFrom(value, 1)

\* wrapMath without the placeholder for an empty value.
wrapMath_NoPlaceholder(value) == "$" \o toLatexSymbol(value) \o "$"

wrapMath(value) ==
    IF value = "" THEN "$~$"
    ELSE "$" \o toLatexSymbol(value) \o "$"

(***************************************************************************)
(* generateSimpleTabVar.                                                   *)
(***************************************************************************)
\* const val = values[i] ? `$${toLatexSymbol(values[i])}$` : ''
varVal(values, i) ==
    IF At(values, i) # "" THEN "$" \o toLatexSymbol(At(values, i)) \o "$" ELSE ""

\* leftVal without the fall back on val.
varLeftVal_NoFallback(values, leftValues, i) ==
    IF At(leftValues, i) # "" THEN "$" \o toLatexSymbol(At(leftValues, i)) \o "$" ELSE ""

\* const leftVal = leftValues[i] ? `$${toLatexSymbol(leftValues[i])}$` : val
varLeftVal(values, leftValues, i) ==
    IF At(leftValues, i) # "" THEN "$" \o toLatexSymbol(At(leftValues, i)) \o "$"
    ELSE varVal(values, i)

\* null is written "" : an arrow is one of up, down, h.
prevArrowAt(arrows, i) == IF i > 0 THEN At(arrows, i - 1) ELSE ""
currArrowAt(arrows, i) == IF i < Len(arrows) THEN At(arrows, i) ELSE ""

inPosOf(prevArrow) ==
    IF prevArrow = "up" THEN "+"
    ELSE IF prevArrow = "down" THEN "-"
    ELSE IF prevArrow = "h" THEN "-"
    ELSE "-"

outPosOf(currArrow) ==
    IF currArrow = "up" THEN "-"
    ELSE IF currArrow = "down" THEN "+"
    ELSE IF currArrow = "h" THEN "-"
    ELSE "-"

\* varCase with the hatched-zone tests placed before the double-bar test.
varCase_HatchFirst(pointType, prevArrow, currArrow, i, n) ==
    IF currArrow = "h" /\ prevArrow # "h" THEN "enter"
    ELSE IF prevArrow = "h" /\ currArrow = "h" THEN "inside"
    ELSE IF prevArrow = "h" /\ currArrow # "h" THEN "exit"
    ELSE IF pointType = "d" THEN "double"
    ELSE IF i = 0 THEN "first"
    ELSE IF i = n THEN "last"
    ELSE "middle"

\* varCase without the branch for the inside of a hatched zone.
varCase_NoInside(pointType, prevArrow, currArrow, i, n) ==
    IF pointType = "d" THEN "double"
    ELSE IF currArrow = "h" /\ prevArrow # "h" THEN "enter"
    ELSE IF prevArrow = "h" /\ currArrow # "h" THEN "exit"
    ELSE IF i = 0 THEN "first"
    ELSE IF i = n THEN "last"
    ELSE "middle"

\* Which branch of the if / else-if chain point i takes.
varCase(pointType, prevArrow, currArrow, i, n) ==
    IF pointType = "d" THEN "double"
    ELSE IF currArrow = "h" /\ prevArrow # "h" THEN "enter"
    ELSE IF prevArrow = "h" /\ currArrow = "h" THEN "inside"
    ELSE IF prevArrow = "h" /\ currArrow # "h" THEN "exit"
    ELSE IF i = 0 THEN "first"
    ELSE IF i = n THEN "last"
    ELSE "middle"

\* enterPos that looks at the outgoing arrow only.
enterPos_OutOnly(prevArrow, outPos) == outPos

\* pos of the branch ENTERING a hatched zone
enterPos(prevArrow, outPos) ==
    IF prevArrow = "up" THEN "+" ELSE IF prevArrow = "down" THEN "-" ELSE outPos

\* exitPos with the two directions exchanged.
exitPos_Swapped(currArrow, inPos) ==
    IF currArrow = "up" THEN "+" ELSE IF currArrow = "down" THEN "-" ELSE inPos

\* pos of the branch EXITING a hatched zone
exitPos(currArrow, inPos) ==
    IF currArrow = "up" THEN "-" ELSE IF currArrow = "down" THEN "+" ELSE inPos

\* middlePos placing a pass-through point as generateTabVar does.
middlePos_AsTabVar(prevArrow, currArrow) ==
    IF prevArrow = "up" /\ currArrow = "down" THEN "+"
    ELSE IF prevArrow = "down" /\ currArrow = "up" THEN "-"
    ELSE IF currArrow = "up" THEN "+"
    ELSE "-"

\* pos of a middle point (local max, local min, pass-through)
middlePos(prevArrow, currArrow) ==
    IF prevArrow = "up" /\ currArrow = "down" THEN "+"
    ELSE IF prevArrow = "down" /\ currArrow = "up" THEN "-"
    ELSE IF currArrow = "up" THEN "-"
    ELSE "+"

\* The body of the loop: the element pushed on parts for point i.
varPart(arrows, values, pointTypes, leftValues, i) ==
    LET n == Len(arrows)
        val == varVal(values, i)
        leftVal == varLeftVal(values, leftValues, i)
        prevArrow == prevArrowAt(arrows, i)
        currArrow == currArrowAt(arrows, i)
        inPos == inPosOf(prevArrow)
        outPos == outPosOf(currArrow)
        branch == varCase(At(pointTypes, i), prevArrow, currArrow, i, n)
    IN  CASE branch = "double" ->
               IF i = 0 THEN "D" \o outPos \o "/ " \o val
               ELSE IF i = n THEN inPos \o "D/ " \o leftVal
               ELSE inPos \o "D" \o outPos \o "/ " \o leftVal \o " / " \o val
          [] branch = "enter" -> enterPos(prevArrow, outPos) \o "H/ " \o val
          [] branch = "inside" -> "R/"
          [] branch = "exit" -> exitPos(currArrow, inPos) \o "/ " \o val
          [] branch = "first" -> outPos \o "/ " \o val
          [] branch = "last" -> inPos \o "/ " \o val
          [] branch = "middle" -> middlePos(prevArrow, currArrow) \o "/ " \o val

\* varParts with the loop bound i < n.
varParts_SkipLast(arrows, values, pointTypes, leftValues) ==
    [k \in 1..Len(arrows) |->
        varPart(arrows, values, pointTypes, leftValues, k - 1)]

\* parts after the loop for (let i = 0; i <= n; i++)
varParts(arrows, values, pointTypes, leftValues) ==
    [k \in 1..(Len(arrows) + 1) |->
        varPart(arrows, values, pointTypes, leftValues, k - 1)]

generateSimpleTabVar(arrows, values, pointTypes, leftValues) ==
    IF Len(arrows) = 0 THEN ""
    ELSE "\\tkzTabVar{"
         \o Join(varParts(arrows, values, pointTypes, leftValues), ", ") \o "}"

(***************************************************************************)
(* generateTabInit.                                                        *)
(***************************************************************************)
\* a || b on strings
OrElse(a, b) == IF a # "" THEN a ELSE b

\* A layout configuration is [kind, lgt, espcl, deltacl]: kind is "undefined"
\* (property absent), "null" or "object"; a number is written as the text
\* the template literal prints for it, "undefined" for an absent property.
NoLayout == [kind |-> "undefined", lgt |-> "undefined", espcl |-> "undefined",
             deltacl |-> "undefined"]
NullLayout == [NoLayout EXCEPT !.kind = "null"]

\* destructuring default: const { x = d } = obj
OrDefault(x, d) == IF x = "undefined" THEN d ELSE x

optionalParams(layoutConfig) ==
    IF layoutConfig.kind = "object" THEN
        "[lgt=" \o OrDefault(layoutConfig.lgt, "2")
        \o ",espcl=" \o OrDefault(layoutConfig.espcl, "2")
        \o ",deltacl=" \o OrDefault(layoutConfig.deltacl, "0.5") \o "]"
    ELSE ""

\* initColumns with one sign column for the function whatever the rows are.
initColumns_OneSignColumn(variable, functionName, includeSign, includeVariation, expressions, variationFunctionName) ==
    << "$" \o OrElse(toLatexSymbol(variable), "x") \o "$ / 1" >>
    \o (IF includeSign THEN << "$" \o OrElse(toLatexSymbol(functionName), "f(x)") \o "$ / 1" >>
        ELSE << >>)
    \o (IF includeVariation
        THEN << "$" \o OrElse(toLatexSymbol(variationFunctionName),
                              OrElse(toLatexSymbol(functionName), "f(x)")) \o "$ / 1.5" >>
        ELSE << >>)

initColumns(variable, functionName, includeSign, includeVariation, expressions, variationFunctionName) ==
    LET varLatex == OrElse(toLatexSymbol(variable), "x")
        funcLatex == OrElse(toLatexSymbol(functionName), "f(x)")
        varFuncLatex == OrElse(toLatexSymbol(variationFunctionName), funcLatex)
        signCols ==
            IF ~includeSign THEN << >>
            ELSE IF Len(expressions) > 0 THEN
                [e \in 1..Len(expressions) |->
                    "$" \o OrElse(toLatexSymbol(expressions[e].name), "f(x)") \o "$ / 1"]
            ELSE << "$" \o funcLatex \o "$ / 1" >>
        varCols == IF includeVariation THEN << "$" \o varFuncLatex \o "$ / 1.5" >>
                   ELSE << >>
    IN  << "$" \o varLatex \o "$ / 1" >> \o signCols \o varCols

generateTabInit(variable, functionName, points, includeSign, includeVariation, expressions, variationFunctionName, layoutConfig) ==
    LET columns == initColumns(variable, functionName, includeSign,
                               includeVariation, expressions, variationFunctionName)
        pointsList == Join([k \in 1..Len(points) |-> wrapMath(points[k])], ", ")
    IN  "\\tkzTabInit" \o optionalParams(layoutConfig)
        \o "{" \o Join(columns, " , ") \o "}{" \o pointsList \o "}"

(***************************************************************************)
(* generateTabLine.                                                        *)
(***************************************************************************)
\* pointTypes[i] || 'n', and 'n' is pushed as the empty string
\* linePoint that writes the annotation as it is, 'n' included.
linePoint_Literal(pointTypes, i) == OrElse(At(pointTypes, i), "n")

linePoint(pointTypes, i) ==
    LET pointType == OrElse(At(pointTypes, i), "n")
    IN  IF pointType = "n" THEN "" ELSE pointType

\* tabLineParts without the push of the last point.
tabLineParts_NoLastPoint(signs, pointTypes) ==
    [k \in 1..(2 * Len(signs)) |->
        IF k % 2 = 1 THEN linePoint(pointTypes, (k - 1) \div 2)
        ELSE signs[k \div 2]]

\* parts: point 0, sign 0, point 1, ..., sign n-1, last point
tabLineParts(signs, pointTypes) ==
    [k \in 1..(2 * Len(signs) + 1) |->
        IF k % 2 = 1 THEN linePoint(pointTypes, (k - 1) \div 2)
        ELSE signs[k \div 2]]

generateTabLine(signs, pointTypes) ==
    IF Len(signs) = 0 THEN ""
    ELSE "\\tkzTabLine{" \o Join(tabLineParts(signs, pointTypes), ", ") \o "}"

(***************************************************************************)
(* generatePreamble, generateFullDocument, generateTikzSnippet.            *)
(***************************************************************************)
generatePreamble ==
    "\\documentclass[border=5pt]{standalone}\n"
    \o "\\usepackage[utf8]{inputenc}\n"
    \o "\\usepackage[T1]{fontenc}\n"
    \o "\\usepackage{tikz}\n"
    \o "\\usetikzlibrary{patterns}\n"
    \o "\\usepackage{tkz-tab}\n"
    \o "\\tikzset{h style/.style={pattern=north west lines}}"

includeSignOf(tableType) == tableType = "sign" \/ tableType = "both"
includeVariationOf(tableType) == tableType = "variation" \/ tableType = "both"

\* exprLines that stops after the first expression row.
exprLines_FirstRowOnly(expressions, e) ==
    IF e > 1 \/ e > Len(expressions) \/ Len(expressions[e].signs) = 0 THEN ""
    ELSE generateTabLine(expressions[e].signs, expressions[e].pointTypes) \o "\n"

RECURSIVE exprLines(_, _)
\* expressions.forEach(expr => { if (expr.signs && expr.signs.length > 0) ... })
exprLines(expressions, e) ==
    IF e > Len(expressions) THEN ""
    ELSE (IF Len(expressions[e].signs) > 0
          THEN generateTabLine(expressions[e].signs, expressions[e].pointTypes) \o "\n"
          ELSE "")
         \o exprLines(expressions, e + 1)

\* fullSignLines without the includeSign test.
fullSignLines_AlwaysSign(tableData) ==
    IF Len(tableData.expressions) > 0 THEN exprLines(tableData.expressions, 1)
    ELSE IF Len(tableData.signs) > 0
         THEN generateTabLine(tableData.signs, tableData.pointSigns) \o "\n"
    ELSE ""

\* the sign part of the body of generateFullDocument
fullSignLines(tableData) ==
    IF ~includeSignOf(tableData.tableType) THEN ""
    ELSE IF Len(tableData.expressions) > 0 THEN exprLines(tableData.expressions, 1)
    ELSE IF Len(tableData.signs) > 0
         THEN generateTabLine(tableData.signs, tableData.pointSigns) \o "\n"
    ELSE ""

\* if (includeVariation && arrows.length > 0), in both generators
varLines(tableData) ==
    IF includeVariationOf(tableData.tableType) /\ Len(tableData.arrows) > 0
    THEN generateSimpleTabVar(tableData.arrows, tableData.values,
                              tableData.variationPointTypes,
                              tableData.variationLeftValues) \o "\n"
    ELSE ""

\* layoutConfig = { lgt: 2, espcl: 2, deltacl: 0.5 } when the property is absent
fullLayout(tableData) ==
    IF tableData.layoutConfig.kind = "undefined"
    THEN [kind |-> "object", lgt |-> "2", espcl |-> "2", deltacl |-> "0.5"]
    ELSE tableData.layoutConfig

fullBody(tableData) ==
    generateTabInit(tableData.variable, tableData.functionName, tableData.points,
                    includeSignOf(tableData.tableType),
                    includeVariationOf(tableData.tableType),
                    tableData.expressions, tableData.variationFunctionName,
                    fullLayout(tableData))
    \o "\n" \o fullSignLines(tableData) \o varLines(tableData)

generateFullDocument(tableData) ==
    generatePreamble \o "\n\n\\begin{document}\n\\begin{tikzpicture}\n"
    \o fullBody(tableData) \o "\\end{tikzpicture}\n\\end{document}"

\* generateTabInit is called with five arguments: expressions = [],
\* variationFunctionName = null, layoutConfig = null
snippetBody(tableData) ==
    generateTabInit(tableData.variable, tableData.functionName, tableData.points,
                    includeSignOf(tableData.tableType),
                    includeVariationOf(tableData.tableType),
                    << >>, "", NullLayout)
    \o "\n"
    \o (IF includeSignOf(tableData.tableType) /\ Len(tableData.signs) > 0
        THEN generateTabLine(tableData.signs, tableData.pointSigns) \o "\n"
        ELSE "")
    \o varLines(tableData)

generateTikzSnippet(tableData) ==
    "\\begin{tikzpicture}\n" \o snippetBody(tableData) \o "\\end{tikzpicture}"

(***************************************************************************)
(* The table description the editor builds (TableGenerator, useMemo).      *)
(***************************************************************************)
\* pointTypes.slice(1, -1)
sliceInner(arr) == IF Len(arr) <= 2 THEN << >> ELSE SubSeq(arr, 2, Len(arr) - 1)

tableData(config, tableType) ==
    [variable |-> config.variable,
     functionName |-> IF Len(config.expressions) > 0
                      THEN OrElse(config.expressions[1].name, "f(x)") ELSE "f(x)",
     points |-> config.points,
     signs |-> IF Len(config.expressions) > 0 THEN config.expressions[1].signs ELSE << >>,
     pointSigns |-> IF Len(config.expressions) > 0
                    THEN sliceInner(config.expressions[1].pointTypes) ELSE << >>,
     arrows |-> config.arrows,
     values |-> config.values,
     variationLeftValues |-> config.variationLeftValues,
     variationPointTypes |-> config.variationPointTypes,
     variationFunctionName |-> config.variationFunctionName,
     expressions |-> config.expressions,
     tableType |-> tableType,
     layoutConfig |-> config.layoutConfig]

(***************************************************************************)
(* The inputs of the model.                                                *)
(***************************************************************************)
Arrows == {"up", "down", "h"}
Signs == {"+", "-", "h"}
PointTypes == {"n", "z", "d", "t"}
VariationPointTypes == {"n", "d"}
TableTypes == {"sign", "variation", "both"}

\* N points: the two infinities around the digits 0, 1, ...
pointsOf(N) ==
    [k \in 1..N |-> IF k = 1 THEN "-\\infty"
                    ELSE IF k = N THEN "+\\infty"
                    ELSE SubSeq("0123456789", k - 1, k - 1)]

\* The value a user typed at point i (0-based): a glyph at the first point,
\* a different letter at every other point; the left values are other letters.
valueOf(i) == IF i = 0 THEN "-I" ELSE SubSeq("abcdefgh", i, i)
leftValueOf(i) == SubSeq("pqrstuvw", i + 1, i + 1)

\* DEFAULT_CONFIGS' layoutConfig
defaultLayout == [kind |-> "object", lgt |-> "2.5", espcl |-> "2", deltacl |-> "0.5"]

plainRow(N) == [name |-> "f(x)", signs |-> [k \in 1..(N - 1) |-> "+"],
                pointTypes |-> [k \in 1..N |-> "n"]]

\* The values (or left values) a user may have typed: none or one per point.
valueChoices(N) ==
    {w \in [1..N -> {""} \cup {valueOf(i) : i \in 0..(N - 1)}] :
        \A k \in 1..N : w[k] \in {"", valueOf(k - 1)}}
leftValueChoices(N) ==
    {w \in [1..N -> {""} \cup {leftValueOf(i) : i \in 0..(N - 1)}] :
        \A k \in 1..N : w[k] \in {"", leftValueOf(k - 1)}}

\* A configuration that varies the variation row.
varConfig(N, a, v, l, t) ==
    [variable |-> "x", points |-> pointsOf(N), arrows |-> a, values |-> v,
     variationLeftValues |-> l, variationPointTypes |-> t,
     variationFunctionName |-> "f(x)", expressions |-> << plainRow(N) >>,
     layoutConfig |-> defaultLayout]

\* A configuration that varies one sign row.
lineConfig(N, sg, pt) ==
    [variable |-> "x", points |-> pointsOf(N),
     arrows |-> [k \in 1..(N - 1) |-> "up"],
     values |-> [k \in 1..N |-> ""],
     variationLeftValues |-> [k \in 1..N |-> ""],
     variationPointTypes |-> [k \in 1..N |-> "n"],
     variationFunctionName |-> "f(x)",
     expressions |-> << [name |-> "g(x)", signs |-> sg, pointTypes |-> pt] >>,
     layoutConfig |-> defaultLayout]

\* The rows of a document: no sign at all, or the same sign on every interval;
\* a row of + may have a zero at every point.
DocRows(N) ==
    { [name |-> "g(x)", signs |-> sg, pointTypes |-> [k \in 1..N |-> "n"]] :
        sg \in {<< >>} \cup {[k \in 1..(N - 1) |-> c] : c \in {"+", "h"}} }
    \cup { [name |-> "g(x)", signs |-> [k \in 1..(N - 1) |-> "+"],
            pointTypes |-> [k \in 1..N |-> "z"]] }

\* A configuration that varies what a document is made of.
docConfig(N, a, vf, ex, lc) ==
    [variable |-> "x", points |-> pointsOf(N), arrows |-> a,
     values |-> [k \in 1..N |-> valueOf(k - 1)],
     variationLeftValues |-> [k \in 1..N |-> ""],
     variationPointTypes |-> [k \in 1..N |-> "n"],
     variationFunctionName |-> vf, expressions |-> ex, layoutConfig |-> lc]

(***************************************************************************)
(* The editor: one configuration per table type, edited through the        *)
(* handlers of VisualTableEditor and normalized by TableGenerator.         *)
(***************************************************************************)
DEFAULT_CONFIGS ==
    [sign |->
        [variable |-> "t",
         points |-> <<"-\\infty", "-1", "4", "+\\infty">>,
         arrows |-> <<"up", "down", "up">>,
         values |-> <<"", "", "", "">>,
         variationLeftValues |-> <<"", "", "", "">>,
         variationPointTypes |-> <<"n", "n", "n", "n">>,
         variationFunctionName |-> "f(t)",
         expressions |->
            << [name |-> "(t+1)", signs |-> <<"-", "+", "+">>,
                pointTypes |-> <<"n", "z", "t", "n">>],
               [name |-> "(t-4)", signs |-> <<"-", "-", "+">>,
                pointTypes |-> <<"n", "t", "z", "n">>],
               [name |-> "(t+1)(t-4)", signs |-> <<"+", "-", "+">>,
                pointTypes |-> <<"n", "z", "z", "n">>] >>,
         layoutConfig |-> defaultLayout],
     variation |->
        [variable |-> "x",
         points |-> <<"-\\infty", "0", "1", "+\\infty">>,
         arrows |-> <<"up", "down", "up">>,
         values |-> <<"-\\infty", "+\\infty", "1", "+\\infty">>,
         variationLeftValues |-> <<"", "+\\infty", "", "">>,
         variationPointTypes |-> <<"n", "d", "n", "n">>,
         variationFunctionName |-> "f(x)",
         expressions |->
            << [name |-> "f(x)", signs |-> <<"+", "-", "+">>,
                pointTypes |-> <<"n", "n", "n", "n">>] >>,
         layoutConfig |-> defaultLayout],
     both |->
        [variable |-> "x",
         points |-> <<"-\\infty", "\\frac{1}{2}", "1", "\\frac{3}{2}", "+\\infty">>,
         arrows |-> <<"up", "down", "down", "up">>,
         values |-> <<"-\\infty", "1", "+\\infty", "3", "+\\infty">>,
         variationLeftValues |-> <<"", "", "-\\infty", "", "">>,
         variationPointTypes |-> <<"n", "n", "d", "n", "n">>,
         variationFunctionName |-> "f(x)",
         expressions |->
            << [name |-> "f'(x)", signs |-> <<"+", "-", "-", "+">>,
                pointTypes |-> <<"n", "z", "d", "z", "n">>] >>,
         layoutConfig |-> defaultLayout]]

\* while (a.length < n) a.push(fill); while (a.length > n) a.pop();
Resize(arr, n, fill) ==
    IF Len(arr) >= n THEN SubSeq(arr, 1, n)
    ELSE arr \o [k \in 1..(n - Len(arr)) |-> fill]

\* arr.filter((_, i) => i !== index), index counted from 0
RemoveAt(arr, index) ==
    SubSeq(arr, 1, Min({index, Len(arr)})) \o SubSeq(arr, index + 2, Len(arr))

\* newArr = [...arr]; newArr[index] = x, index counted from 0 and inside arr
SetAt(arr, index, x) == [arr EXCEPT ![index + 1] = x]

\* A toggle that goes back to the first value from any other one.
CycleNext_BackToFirst(cycle, current) == IF current = cycle[1] THEN cycle[2] ELSE cycle[1]

\* cycle[(cycle.indexOf(current) + 1) % cycle.length]; indexOf is -1 for a
\* value that is not in the cycle.
CycleNext(cycle, current) ==
    LET found == {k \in 1..Len(cycle) : cycle[k] = current}
        indexOf == IF found = {} THEN -1 ELSE Min(found) - 1
    IN  cycle[((indexOf + 1) % Len(cycle)) + 1]

\* updateConfig that also puts the other table types back to their defaults.
updateConfig_ResetsOthers(prev, type, updated) == [DEFAULT_CONFIGS EXCEPT ![type] = updated]

\* setConfigs(prev => ({ ...prev, [tableType]: { ...prev[tableType], ...updates } }))
\* updated is prev[tableType] with the updates written over it.
updateConfig(prev, type, updated) == [prev EXCEPT ![type] = updated]

normalizeExpression(expr, pointCount) ==
    [expr EXCEPT !.signs = Resize(expr.signs, IF pointCount > 0 THEN pointCount - 1 ELSE 0, "+"),
                 !.pointTypes = Resize(expr.pointTypes, pointCount, "n")]

\* handlePointsChange that stores the new points and adjusts nothing.
handlePointsChange_PointsOnly(config, newPoints) == [config EXCEPT !.points = newPoints]

\* The configuration handlePointsChange writes for the new points.
handlePointsChange(config, newPoints) ==
    LET newIntervalCount == IF Len(newPoints) > 0 THEN Len(newPoints) - 1 ELSE 0
    IN  [config EXCEPT
            !.points = newPoints,
            !.arrows = Resize(config.arrows, newIntervalCount, "up"),
            !.values = Resize(config.values, Len(newPoints), ""),
            !.variationLeftValues = Resize(config.variationLeftValues, Len(newPoints), ""),
            !.variationPointTypes = Resize(config.variationPointTypes, Len(newPoints), "n"),
            !.expressions = [e \in 1..Len(config.expressions) |->
                                normalizeExpression(config.expressions[e], Len(newPoints))]]

\* The configuration handleExpressionsChange writes for the new rows.
handleExpressionsChange(config, newExpressions) ==
    [config EXCEPT
        !.expressions = [e \in 1..Len(newExpressions) |->
                            normalizeExpression(newExpressions[e], Len(config.points))]]

\* `f_${expressions.length + 1}(x)`
exprName(n) == "f_" \o SubSeq("123456789", n, n) \o "(x)"

addExpression(config) ==
    handleExpressionsChange(config,
        config.expressions
        \o << [name |-> exprName(Len(config.expressions) + 1),
               signs |-> [k \in 1..(Len(config.points) - 1) |-> "+"],
               pointTypes |-> [k \in 1..Len(config.points) |-> "n"]] >>)

removeExpression(config, index) ==
    handleExpressionsChange(config, RemoveAt(config.expressions, index))

updateExpressionName(config, index, name) ==
    handleExpressionsChange(config,
        [config.expressions EXCEPT ![index + 1] = [@ EXCEPT !.name = name]])

toggleSign(config, exprIndex, signIndex) ==
    handleExpressionsChange(config,
        [config.expressions EXCEPT ![exprIndex + 1] =
            [@ EXCEPT !.signs = SetAt(@, signIndex, CycleNext(<<"+", "-", "h">>, @[signIndex + 1]))]])

togglePointType(config, exprIndex, pointIndex) ==
    handleExpressionsChange(config,
        [config.expressions EXCEPT ![exprIndex + 1] =
            [@ EXCEPT !.pointTypes =
                SetAt(@, pointIndex, CycleNext(<<"n", "z", "d", "t">>, @[pointIndex + 1]))]])

toggleArrow(config, index) ==
    [config EXCEPT !.arrows =
        SetAt(@, index, CycleNext(<<"up", "down", "h">>, @[index + 1]))]

updatePoint(config, index, val) ==
    handlePointsChange(config, SetAt(config.points, index, val))

updateValue(config, index, val) ==
    [config EXCEPT !.values = SetAt(@, index, val)]

updateLeftValue(config, index, val) ==
    [config EXCEPT !.variationLeftValues = SetAt(@, index, val)]

toggleVariationPointType(config, index) ==
    [config EXCEPT !.variationPointTypes =
        SetAt(@, index, IF @[index + 1] = "n" THEN "d" ELSE "n")]

\* newPoints.splice(points.length - 1, 0, '')
addColumn(config) ==
    handlePointsChange(config,
        SubSeq(config.points, 1, Len(config.points) - 1) \o <<"">>
        \o SubSeq(config.points, Len(config.points), Len(config.points)))

\* removeColumn without its guard on the number of points.
removeColumn_Unguarded(config, index) ==
    handlePointsChange(config, RemoveAt(config.points, index))

removeColumn(config, index) ==
    IF Len(config.points) <= 2 THEN config
    ELSE handlePointsChange(config, RemoveAt(config.points, index))

\* PointsRow.removePoint, with the editor's points and onPointsChange.
removePoint(config, index) ==
    IF Len(config.points) <= 2 THEN config
    ELSE handlePointsChange(config, RemoveAt(config.points, index))

\* parseFloat(value) || 0 for the texts a number input yields, printed as
\* the template literal prints the number.
parseFloatOrZero(val) == IF val = "" THEN "0" ELSE val

handleLayoutChange(config, key, val) ==
    [config EXCEPT !.layoutConfig = [@ EXCEPT ![key] = parseFloatOrZero(val)]]

(***************************************************************************)
(* State: a table description and what each generator returned for it.     *)
(***************************************************************************)
\* No text has been given to toLatexSymbol or wrapMath.
SymIdle ==
    /\ text = ""
    /\ symbol = ""
    /\ symbolAgain = ""
    /\ wrapped = ""

\* No document generator has been called a second time.
AgainIdle ==
    /\ fullDocAgain = ""
    /\ snippetAgain = ""

\* The editor as it is mounted: the default configurations, 'both' selected.
EditorIdle ==
    /\ configs = DEFAULT_CONFIGS
    /\ selectedTableType = "both"
    /\ edits = 0

\* A preview that has no timer, no request and no image.
PreviewIdle ==
    /\ mounted = FALSE
    /\ memoLatexCode = ""
    /\ timers = {}
    /\ renderTimeout = 0
    /\ requests = {}
    /\ issued = 0
    /\ lastIssued = ""
    /\ renderedImage = ""
    /\ appRenderedImage = ""
    /\ loading = FALSE
    /\ error = ""

\* A closed template menu from which nothing was loaded.
TemplateIdle ==
    /\ isOpen = FALSE
    /\ loaded = << >>

\* A proxy that has received no request.
ProxyIdle ==
    /\ jobs = << >>
    /\ workDirs = {}
    /\ files = {}

ExtraIdle == TemplateIdle /\ ProxyIdle
RestIdle == AgainIdle /\ EditorIdle /\ PreviewIdle /\ ExtraIdle
OthersIdle == SymIdle /\ RestIdle

NotCalled ==
    /\ called = {}
    /\ tabVar = ""
    /\ tabLine = ""
    /\ fullDoc = ""
    /\ snippet = ""
    /\ tabInit = ""
    /\ OthersIdle

InitVar ==
    /\ \E N \in 2..MaxPoints :
         \E a \in [1..(N - 1) -> Arrows], t \in [1..N -> VariationPointTypes] :
           \E v \in valueChoices(N), l \in leftValueChoices(N) \cup {<< >>} :
             td = tableData(varConfig(N, a, v, l, t), "both")
    /\ NotCalled

InitLine ==
    /\ \E N \in 2..MaxPoints :
         \E sg \in [1..(N - 1) -> Signs], pt \in [1..N -> PointTypes] :
           td = tableData(lineConfig(N, sg, pt), "sign")
    /\ NotCalled

InitDoc ==
    /\ \E N \in 2..MaxPoints, t \in TableTypes :
         \E a \in {<< >>} \cup {[k \in 1..(N - 1) |-> c] : c \in {"up", "h"}},
            vf \in {"", "h(x)"},
            ex \in UNION {[1..m -> DocRows(N)] : m \in 0..MaxExprs},
            lc \in {NoLayout, NullLayout, defaultLayout} :
           td = tableData(docConfig(N, a, vf, ex, lc), t)
    /\ NotCalled

CallSimpleTabVar ==
    /\ "tabVar" \notin called
    /\ tabVar' = generateSimpleTabVar(td.arrows, td.values, td.variationPointTypes,
                                      td.variationLeftValues)
    /\ called' = called \cup {"tabVar"}
    /\ UNCHANGED <<td, tabLine, fullDoc, snippet, tabInit, otherVars>>

CallTabLine ==
    /\ "tabLine" \notin called
    /\ Len(td.expressions) > 0
    /\ tabLine' = generateTabLine(td.expressions[1].signs, td.expressions[1].pointTypes)
    /\ called' = called \cup {"tabLine"}
    /\ UNCHANGED <<td, tabVar, fullDoc, snippet, tabInit, otherVars>>

\* A generateFullDocument that pops the last arrow of its input before
\* it returns.
CallFullDocument_PopsArrow ==
    /\ "full" \notin called
    /\ fullDoc' = generateFullDocument(td)
    /\ td' = [td EXCEPT !.arrows = SubSeq(td.arrows, 1, Len(td.arrows) - 1)]
    /\ called' = called \cup {"full"}
    /\ UNCHANGED <<tabVar, tabLine, snippet, tabInit, otherVars>>

CallFullDocument ==
    /\ "full" \notin called
    /\ fullDoc' = generateFullDocument(td)
    /\ called' = called \cup {"full"}
    /\ UNCHANGED <<td, tabVar, tabLine, snippet, tabInit, otherVars>>

CallTikzSnippet ==
    /\ "snippet" \notin called
    /\ snippet' = generateTikzSnippet(td)
    /\ called' = called \cup {"snippet"}
    /\ UNCHANGED <<td, tabVar, tabLine, fullDoc, tabInit, otherVars>>

\* The header emitter called as generateFullDocument calls it (App.jsx:525-528),
\* with the description's own layoutConfig.
CallTabInit ==
    /\ "tabInit" \notin called
    /\ tabInit' = generateTabInit(td.variable, td.functionName, td.points,
                                  includeSignOf(td.tableType), includeVariationOf(td.tableType),
                                  td.expressions, td.variationFunctionName,
                                  td.layoutConfig)
    /\ called' = called \cup {"tabInit"}
    /\ UNCHANGED <<td, tabVar, tabLine, fullDoc, snippet, otherVars>>

\* A second call on the description the first call was given.
CallFullDocumentAgain ==
    /\ "full" \in called
    /\ "fullAgain" \notin called
    /\ fullDocAgain' = generateFullDocument(td)
    /\ called' = called \cup {"fullAgain"}
    /\ UNCHANGED <<td, tabVar, tabLine, fullDoc, snippet, tabInit, symVars, snippetAgain, editorVars, previewVars, extraVars>>

CallTikzSnippetAgain ==
    /\ "snippet" \in called
    /\ "snippetAgain" \notin called
    /\ snippetAgain' = generateTikzSnippet(td)
    /\ called' = called \cup {"snippetAgain"}
    /\ UNCHANGED <<td, tabVar, tabLine, fullDoc, snippet, tabInit, symVars, fullDocAgain, editorVars, previewVars, extraVars>>

\* The texts given to toLatexSymbol and wrapMath: up to MaxLen characters
\* among a letter, two glyphs, the signs and the backslash.  A missing value
\* (null, undefined) takes the same branch as the empty text.
Alphabet == {"a", "I", "P", "+", "-", "\\"}

RECURSIVE Texts(_)
Texts(n) ==
    IF n = 0 THEN {""}
    ELSE Texts(n - 1) \cup {s \o c : s \in Texts(n - 1), c \in Alphabet}

InitSym ==
    /\ text \in Texts(MaxLen)
    /\ symbol = ""
    /\ symbolAgain = ""
    /\ wrapped = ""
    /\ td = tableData(lineConfig(2, <<"+">>, <<"n", "n">>), "sign")
    /\ called = {}
    /\ tabVar = ""
    /\ tabLine = ""
    /\ fullDoc = ""
    /\ snippet = ""
    /\ tabInit = ""
    /\ RestIdle

CallToLatexSymbol ==
    /\ "symbol" \notin called
    /\ symbol' = toLatexSymbol(text)
    /\ called' = called \cup {"symbol"}
    /\ UNCHANGED <<td, tabVar, tabLine, fullDoc, snippet, tabInit, text, symbolAgain, wrapped, restVars>>

\* toLatexSymbol applied to what it returned
CallToLatexSymbolAgain ==
    /\ "symbol" \in called
    /\ "again" \notin called
    /\ symbolAgain' = toLatexSymbol(symbol)
    /\ called' = called \cup {"again"}
    /\ UNCHANGED <<td, tabVar, tabLine, fullDoc, snippet, tabInit, text, symbol, wrapped, restVars>>

CallWrapMath ==
    /\ "wrap" \notin called
    /\ wrapped' = wrapMath(text)
    /\ called' = called \cup {"wrap"}
    /\ UNCHANGED <<td, tabVar, tabLine, fullDoc, snippet, tabInit, text, symbol, symbolAgain, restVars>>

NextVar == CallSimpleTabVar
NextLine == CallTabLine
NextDoc == CallFullDocument \/ CallTikzSnippet
NextInit == CallTabInit
NextPure ==
    \/ CallFullDocument
    \/ CallTikzSnippet
    \/ CallFullDocumentAgain
    \/ CallTikzSnippetAgain
NextSym == CallToLatexSymbol \/ CallToLatexSymbolAgain \/ CallWrapMath

SpecVar == InitVar /\ [][NextVar]_vars
SpecLine == InitLine /\ [][NextLine]_vars
SpecDoc == InitDoc /\ [][NextDoc]_vars
SpecInit == InitDoc /\ [][NextInit]_vars
SpecPure == InitDoc /\ [][NextPure]_vars
SpecSym == InitSym /\ [][NextSym]_vars

(***************************************************************************)
(* The editor's user actions.  Each one is a handler of VisualTableEditor  *)
(* (or of the application) followed by the state update of TableGenerator  *)
(* and the notification of the new table description to the parent.  An    *)
(* action is offered for the controls the editor renders; limit bounds the *)
(* number of user actions of a behaviour.                                  *)
(***************************************************************************)
\* const currentConfig = configs[tableType] || configs.sign
currentConfig == configs[selectedTableType]
pointIndexes == 0..(Len(currentConfig.points) - 1)
intervalIndexes == 0..(Len(currentConfig.points) - 2)
exprIndexes == 0..(Len(currentConfig.expressions) - 1)

\* What the user types in a cell: nothing, or a digit.
EditTexts == {"", "7"}
\* What the user enters in a layout field: nothing, or a number.
LayoutTexts == {"", "3"}

\* updateConfig for the selected type, then onTableDataChange(tableData).
Edit(limit, updated) ==
    /\ edits < limit
    /\ configs' = updateConfig(configs, selectedTableType, updated)
    /\ td' = tableData(updated, selectedTableType)
    /\ edits' = edits + 1
    /\ UNCHANGED <<selectedTableType, called, tabVar, tabLine, fullDoc, snippet, tabInit, symVars, againVars, previewVars, extraVars>>

\* setTableType(option.value) in the application, and the table description
\* TableGenerator builds for the type selected.
setTableType(limit) ==
    /\ edits < limit
    /\ \E type \in TableTypes \ {selectedTableType} :
         /\ selectedTableType' = type
         /\ td' = tableData(configs[type], type)
    /\ edits' = edits + 1
    /\ UNCHANGED <<configs, called, tabVar, tabLine, fullDoc, snippet, tabInit, symVars, againVars>>

\* The selection as the editor sees it.
SelectTableType(limit) == setTableType(limit) /\ UNCHANGED <<previewVars, extraVars>>

AddColumn(limit) == Edit(limit, addColumn(currentConfig))

RemoveColumn(limit) ==
    \E index \in pointIndexes : Edit(limit, removeColumn(currentConfig, index))

RemovePoint(limit) ==
    \E index \in pointIndexes : Edit(limit, removePoint(currentConfig, index))

UpdatePoint(limit) ==
    \E index \in pointIndexes, val \in EditTexts :
        Edit(limit, updatePoint(currentConfig, index, val))

AddExpression(limit) ==
    /\ includeSignOf(selectedTableType)
    /\ Edit(limit, addExpression(currentConfig))

RemoveExpression(limit) ==
    /\ includeSignOf(selectedTableType)
    /\ Len(currentConfig.expressions) > 1
    /\ \E index \in exprIndexes : Edit(limit, removeExpression(currentConfig, index))

UpdateExpressionName(limit) ==
    /\ includeSignOf(selectedTableType)
    /\ \E index \in exprIndexes, name \in EditTexts :
         Edit(limit, updateExpressionName(currentConfig, index, name))

ToggleSign(limit) ==
    /\ includeSignOf(selectedTableType)
    /\ \E exprIndex \in exprIndexes, signIndex \in intervalIndexes :
         Edit(limit, toggleSign(currentConfig, exprIndex, signIndex))

TogglePointType(limit) ==
    /\ includeSignOf(selectedTableType)
    /\ \E exprIndex \in exprIndexes, pointIndex \in pointIndexes :
         Edit(limit, togglePointType(currentConfig, exprIndex, pointIndex))

ToggleArrow(limit) ==
    /\ includeVariationOf(selectedTableType)
    /\ \E index \in intervalIndexes : Edit(limit, toggleArrow(currentConfig, index))

\* The value cell is rendered for every point but a double bar at the last one.
UpdateValue(limit) ==
    /\ includeVariationOf(selectedTableType)
    /\ \E index \in pointIndexes, val \in EditTexts :
         /\ ~(currentConfig.variationPointTypes[index + 1] = "d"
              /\ index = Len(currentConfig.points) - 1)
         /\ Edit(limit, updateValue(currentConfig, index, val))

\* The left value cell is rendered for a double bar that is not at the first point.
UpdateLeftValue(limit) ==
    /\ includeVariationOf(selectedTableType)
    /\ \E index \in pointIndexes, val \in EditTexts :
         /\ currentConfig.variationPointTypes[index + 1] = "d"
         /\ index # 0
         /\ Edit(limit, updateLeftValue(currentConfig, index, val))

ToggleVariationPointType(limit) ==
    /\ includeVariationOf(selectedTableType)
    /\ \E index \in pointIndexes :
         Edit(limit, toggleVariationPointType(currentConfig, index))

SetVariable(limit) ==
    \E val \in EditTexts : Edit(limit, [currentConfig EXCEPT !.variable = val])

SetVariationFunctionName(limit) ==
    /\ includeVariationOf(selectedTableType)
    /\ \E val \in EditTexts :
         Edit(limit, [currentConfig EXCEPT !.variationFunctionName = val])

HandleLayoutChange(limit) ==
    \E key \in {"lgt", "espcl", "deltacl"}, val \in LayoutTexts :
        Edit(limit, handleLayoutChange(currentConfig, key, val))

InitEditor ==
    /\ EditorIdle
    /\ td = tableData(DEFAULT_CONFIGS["both"], "both")
    /\ called = {}
    /\ tabVar = ""
    /\ tabLine = ""
    /\ fullDoc = ""
    /\ snippet = ""
    /\ tabInit = ""
    /\ SymIdle
    /\ AgainIdle
    /\ PreviewIdle
    /\ ExtraIdle

NextEditor ==
    \/ SelectTableType(MaxEdits)
    \/ AddColumn(MaxEdits)
    \/ RemoveColumn(MaxEdits)
    \/ UpdatePoint(MaxEdits)
    \/ AddExpression(MaxEdits)
    \/ RemoveExpression(MaxEdits)
    \/ UpdateExpressionName(MaxEdits)
    \/ ToggleSign(MaxEdits)
    \/ TogglePointType(MaxEdits)
    \/ ToggleArrow(MaxEdits)
    \/ UpdateValue(MaxEdits)
    \/ UpdateLeftValue(MaxEdits)
    \/ ToggleVariationPointType(MaxEdits)
    \/ SetVariable(MaxEdits)
    \/ SetVariationFunctionName(MaxEdits)
    \/ HandleLayoutChange(MaxEdits)

NextColumns ==
    \/ SelectTableType(MaxColumnEdits)
    \/ AddColumn(MaxColumnEdits)
    \/ RemoveColumn(MaxColumnEdits)
    \/ RemovePoint(MaxColumnEdits)

NextToggles ==
    \/ SelectTableType(MaxToggles)
    \/ ToggleSign(MaxToggles)
    \/ TogglePointType(MaxToggles)
    \/ ToggleArrow(MaxToggles)
    \/ ToggleVariationPointType(MaxToggles)

\* The handlers that change the rows, the columns and the labels of the table.
NextRows ==
    \/ SelectTableType(MaxRowEdits)
    \/ AddColumn(MaxRowEdits)
    \/ RemoveColumn(MaxRowEdits)
    \/ AddExpression(MaxRowEdits)
    \/ RemoveExpression(MaxRowEdits)
    \/ UpdateExpressionName(MaxRowEdits)
    \/ SetVariationFunctionName(MaxRowEdits)

SpecToggles == InitEditor /\ [][NextToggles]_vars
SpecRows == InitEditor /\ [][NextRows]_vars
SpecEditor == InitEditor /\ [][NextEditor]_vars
SpecColumns == InitEditor /\ [][NextColumns]_vars

(***************************************************************************)
(* Reading a generated text back: what a reader of the LaTeX sees.         *)
(***************************************************************************)
RECURSIVE Split(_, _)
\* The pieces of s between the occurrences of sep.
Split(s, sep) ==
    LET p == IndexOf(s, sep)
    IN  IF p = 0 THEN << s >>
        ELSE << SubSeq(s, 1, p - 1) >> \o Split(SubSeq(s, p + Len(sep), Len(s)), sep)

StartsWith(s, pre) == Len(s) >= Len(pre) /\ SubSeq(s, 1, Len(pre)) = pre
EndsWith(s, suf) == Len(s) >= Len(suf) /\ SubSeq(s, Len(s) - Len(suf) + 1, Len(s)) = suf

\* The number of places where sub occurs in s.
Occurrences(s, sub) ==
    Cardinality({p \in 1..(Len(s) - Len(sub) + 1) : SubSeq(s, p, p + Len(sub) - 1) = sub})

\* A call is macro{...}: the comma-separated tokens between the braces.
IsCall(s, macro) == StartsWith(s, macro \o "{") /\ EndsWith(s, "}")
CallTokens(s, macro) == Split(SubSeq(s, Len(macro) + 2, Len(s) - 1), ", ")

VarTokens == CallTokens(tabVar, "\\tkzTabVar")
LineTokens == CallTokens(tabLine, "\\tkzTabLine")

\* The description's variation row, by 0-based point index.
NPoints == Len(td.points)
PointIdx == 0..(NPoints - 1)
PrevArrow(i) == IF i = 0 THEN "none" ELSE td.arrows[i]
NextArrow(i) == IF i = NPoints - 1 THEN "none" ELSE td.arrows[i + 1]
IsDoubleBar(i) == td.variationPointTypes[i + 1] = "d"
Value(i) == td.values[i + 1]
LeftValue(i) == At(td.variationLeftValues, i)

\* Rule 5's positions.
InPos(i) == IF PrevArrow(i) = "up" THEN "+" ELSE "-"
OutPos(i) == IF NextArrow(i) = "down" THEN "+" ELSE "-"

\* A value as a token shows it: in math mode, nothing for no value.
Shown(v) == IF v = "" THEN "" ELSE "$" \o toLatexSymbol(v) \o "$"

\* The double-bar token of point i for a given left value.
DoubleBarToken(i, left) ==
    IF i = 0 THEN "D" \o OutPos(i) \o "/ " \o Shown(Value(i))
    ELSE IF i = NPoints - 1 THEN InPos(i) \o "D/ " \o Shown(left)
    ELSE InPos(i) \o "D" \o OutPos(i) \o "/ " \o Shown(left) \o " / " \o Shown(Value(i))

VarCalled == "tabVar" \in called

(***************************************************************************)
(* Claims.                                                                 *)
(***************************************************************************)
\* C1: for N >= 2 points generateSimpleTabVar returns \tkzTabVar{...} holding
\* exactly N comma-separated tokens, one per point, whatever the arrows and
\* the point kinds.
C1_VarTokenCount ==
    VarCalled =>
        /\ IsCall(tabVar, "\\tkzTabVar")
        /\ Len(VarTokens) = NPoints

C1_Witness ==
    /\ VarCalled
    /\ NPoints = 3
    /\ td.arrows = <<"h", "down">>
    /\ td.variationPointTypes = <<"n", "d", "n">>

C4_EnterHatched ==
    VarCalled =>
        \A i \in PointIdx :
            (~IsDoubleBar(i) /\ NextArrow(i) = "h" /\ PrevArrow(i) # "h") =>
                VarTokens[i + 1] =
                    (IF PrevArrow(i) = "up" THEN "+"
                     ELSE IF PrevArrow(i) = "down" THEN "-" ELSE "-")
                    \o "H/ " \o Shown(Value(i))

C4_Witness ==
    /\ VarCalled
    /\ NPoints = 3
    /\ td.arrows = <<"up", "h">>
    /\ ~IsDoubleBar(1)
    /\ VarTokens[2] = "+H/ $a$"

\* C5: a point that is not a double bar, with a hatched incoming arrow and
\* an outgoing arrow that is not hatched (or none), gives <pos>/ value:
\* pos is - before an increasing arrow, + before a decreasing one, else -.
C5_ExitHatched ==
    VarCalled =>
        \A i \in PointIdx :
            (~IsDoubleBar(i) /\ PrevArrow(i) = "h" /\ NextArrow(i) # "h") =>
                VarTokens[i + 1] =
                    (IF NextArrow(i) = "up" THEN "-"
                     ELSE IF NextArrow(i) = "down" THEN "+" ELSE "-")
                    \o "/ " \o Shown(Value(i))

C5_Witness ==
    /\ VarCalled
    /\ NPoints = 3
    /\ td.arrows = <<"h", "down">>
    /\ ~IsDoubleBar(1)
    /\ VarTokens[2] = "+/ $a$"

\* C6: a point that is not a double bar, between two hatched arrows, gives
\* the bare token R/ whatever value is stored for it.
C6_InsideHatched ==
    VarCalled =>
        \A i \in PointIdx :
            (~IsDoubleBar(i) /\ PrevArrow(i) = "h" /\ NextArrow(i) = "h") =>
                VarTokens[i + 1] = "R/"

C6_Witness ==
    /\ VarCalled
    /\ NPoints = 3
    /\ td.arrows = <<"h", "h">>
    /\ ~IsDoubleBar(1)
    /\ Value(1) # ""
    /\ VarTokens[2] = "R/"

\* C7: a point that is not a double bar and has no hatched neighbour gives
\* <pos>/ value: at i = 0, - before an increasing arrow and + before a
\* decreasing one; at i = N-1, + after an increasing arrow and - after a
\* decreasing one; inside, + at a local maximum, - at a local minimum, - when
\* passing through into an increasing arrow and + otherwise.
C7_DefaultPosition ==
    VarCalled =>
        \A i \in PointIdx :
            (~IsDoubleBar(i) /\ PrevArrow(i) # "h" /\ NextArrow(i) # "h") =>
                VarTokens[i + 1] =
                    (IF i = 0 THEN (IF NextArrow(i) = "up" THEN "-" ELSE "+")
                     ELSE IF i = NPoints - 1 THEN (IF PrevArrow(i) = "up" THEN "+" ELSE "-")
                     ELSE IF PrevArrow(i) = "up" /\ NextArrow(i) = "down" THEN "+"
                     ELSE IF PrevArrow(i) = "down" /\ NextArrow(i) = "up" THEN "-"
                     ELSE IF NextArrow(i) = "up" THEN "-"
                     ELSE "+")
                    \o "/ " \o Shown(Value(i))

C7_Witness ==
    /\ VarCalled
    /\ td.arrows = <<"up", "down">>
    /\ td.variationPointTypes = <<"n", "n", "n">>
    /\ td.values = <<"-I", "a", "b">>
    /\ VarTokens = <<"-/ $-\\infty$", "+/ $a$", "-/ $b$">>

\* C8: every value of the variation row is math-wrapped, and an empty value
\* is emitted as $~$: no token has an empty argument after its "/".
C8_EmptyValuePlaceholder ==
    VarCalled =>
        \A i \in PointIdx :
            VarTokens[i + 1] # "R/" =>
                /\ ~EndsWith(VarTokens[i + 1], "/ ")
                /\ ~Includes(VarTokens[i + 1], "/  /")
                /\ (Value(i) = "" /\ ~(IsDoubleBar(i) /\ i = NPoints - 1))
                       => EndsWith(VarTokens[i + 1], "/ $~$")

LineCalled == "tabLine" \in called
IsPointToken(t) == t \in {"", "z", "d", "t"}
IsSignToken(t) == t \in {"+", "-", "h"}

\* C2: for N-1 >= 1 interval signs and N point annotations generateTabLine
\* returns \tkzTabLine{...} holding exactly 2N-1 tokens that alternate point
\* annotation, interval sign, ..., point annotation: the first and the last
\* token are point annotations.
C2_LineTokensAlternate ==
    LineCalled =>
        /\ IsCall(tabLine, "\\tkzTabLine")
        /\ Len(LineTokens) = 2 * NPoints - 1
        /\ \A k \in 1..Len(LineTokens) :
               IF k % 2 = 1 THEN IsPointToken(LineTokens[k])
               ELSE IsSignToken(LineTokens[k])
        /\ IsPointToken(LineTokens[1])
        /\ IsPointToken(LineTokens[Len(LineTokens)])

C2_Witness ==
    /\ LineCalled
    /\ NPoints = 3
    /\ td.expressions[1].signs = <<"-", "+">>
    /\ td.expressions[1].pointTypes = <<"n", "z", "n">>
    /\ LineTokens = <<"", "-", "z", "+", "">>

\* The drawing block of a generated text: what stands between
\* \begin{tikzpicture} and \end{tikzpicture}.
DrawingBlock(s) ==
    LET b == "\\begin{tikzpicture}\n"
        from == IndexOf(s, b) + Len(b)
        to == IndexOf(s, "\\end{tikzpicture}") - 1
    IN  SubSeq(s, from, to)

FullCalled == "full" \in called
SnippetCalled == "snippet" \in called

\* C9: generateFullDocument and generateTikzSnippet give byte-identical
\* content between \begin{tikzpicture} and \end{tikzpicture} for the same
\* table description.
C9_SameDrawingBlock ==
    (FullCalled /\ SnippetCalled) => DrawingBlock(fullDoc) = DrawingBlock(snippet)

\* The rows of the description that carry at least one interval sign.
SignedRows == {e \in 1..Len(td.expressions) : Len(td.expressions[e].signs) > 0}
HasSignSection == td.tableType \in {"sign", "both"}
HasVariationSection == td.tableType \in {"variation", "both"}

\* The places of a macro in the full document.
Places(macro) ==
    {p \in 1..(Len(fullDoc) - Len(macro) + 1) : SubSeq(fullDoc, p, p + Len(macro) - 1) = macro}

C11_SignRowTokens ==
    LineCalled =>
        LET signs == td.expressions[1].signs
            pointTypes == td.expressions[1].pointTypes
        IN  /\ Len(LineTokens) = 2 * Len(signs) + 1
            /\ \A i \in 1..Len(pointTypes) :
                   LineTokens[2 * i - 1] = IF pointTypes[i] = "n" THEN "" ELSE pointTypes[i]
            /\ \A i \in 1..Len(signs) : LineTokens[2 * i] = signs[i]
            /\ (signs = <<"-", "+">> /\ pointTypes = <<"n", "z", "n">>)
                   => tabLine = "\\tkzTabLine{, -, z, +, }"

C11_Witness ==
    /\ LineCalled
    /\ td.expressions[1].signs = <<"h", "-">>
    /\ td.expressions[1].pointTypes = <<"d", "n", "t">>
    /\ tabLine = "\\tkzTabLine{d, h, , -, t}"

\* The header call read back: the column specs between the first pair of
\* braces and the point list between the second.
InitCalled == "tabInit" \in called
HeaderColumns ==
    Split(SubSeq(tabInit, IndexOf(tabInit, "{") + 1, IndexOf(tabInit, "}{") - 1), " , ")
HeaderPoints ==
    Split(SubSeq(tabInit, IndexOf(tabInit, "}{") + 2, Len(tabInit) - 1), ", ")
SignLabels ==
    IF Len(td.expressions) > 0
    THEN [e \in 1..Len(td.expressions) |-> td.expressions[e].name]
    ELSE << td.functionName >>

(***************************************************************************)
(* C12: the header call lists the column spec of the variable, then, if    *)
(* the sign section is included, one spec of weight 1 per expression row   *)
(* (a single spec for the function label when there is no row), then, if   *)
(* the variation section is included, one spec of weight 1.5; its point    *)
(* list has exactly N entries, the math-wrapped points in their order.     *)
(***************************************************************************)
C12_HeaderColumnsAndPoints ==
    InitCalled =>
        LET s == IF HasSignSection THEN Len(SignLabels) ELSE 0
            v == IF HasVariationSection THEN 1 ELSE 0
        IN  /\ StartsWith(tabInit, "\\tkzTabInit") /\ EndsWith(tabInit, "}")
            /\ Len(HeaderColumns) = 1 + s + v
            /\ HeaderColumns[1] = "$" \o td.variable \o "$ / 1"
            /\ \A e \in 1..s : HeaderColumns[1 + e] = "$" \o SignLabels[e] \o "$ / 1"
            /\ v = 1 => /\ StartsWith(HeaderColumns[1 + s + v], "$")
                        /\ EndsWith(HeaderColumns[1 + s + v], "$ / 1.5")
            /\ Len(HeaderPoints) = NPoints
            /\ \A k \in 1..NPoints : HeaderPoints[k] = "$" \o td.points[k] \o "$"

C12_Witness ==
    /\ InitCalled
    /\ td.tableType = "both"
    /\ Len(td.expressions) = 2
    /\ NPoints = 3
    /\ Len(HeaderColumns) = 4
    /\ Len(HeaderPoints) = 3

(***************************************************************************)
(* C13: when the description carries no layout parameters, no generated    *)
(* text has an optional bracket group after the header macro: neither the  *)
(* header call itself, nor the full document, nor the snippet.             *)
(***************************************************************************)
C13_NoLayoutNoBracketGroup ==
    td.layoutConfig.kind # "object" =>
        /\ InitCalled => ~Includes(tabInit, "\\tkzTabInit[")
        /\ FullCalled => ~Includes(fullDoc, "\\tkzTabInit[")
        /\ SnippetCalled => ~Includes(snippet, "\\tkzTabInit[")

SymbolCalled == "symbol" \in called
AgainCalled == "again" \in called
WrapCalled == "wrap" \in called

(***************************************************************************)
(* C14: toLatexSymbol returns a text that contains a backslash unchanged,  *)
(* glyphs in it included; and toLatexSymbol applied to what toLatexSymbol  *)
(* returned changes nothing.                                               *)
(***************************************************************************)
C14_BackslashPassThrough ==
    /\ (SymbolCalled /\ Includes(text, "\\")) => symbol = text
    /\ AgainCalled => symbolAgain = symbol

C14_Witness ==
    /\ AgainCalled
    /\ text = "\\I"
    /\ symbol = "\\I"
    /\ symbolAgain = "\\I"

\* A text without a backslash is converted, and the result is stable too.
C14_WitnessConverted ==
    /\ AgainCalled
    /\ text = "+I"
    /\ symbol = "+\\infty"
    /\ symbolAgain = symbol

(***************************************************************************)
(* C15: wrapMath of the empty text is the placeholder $~$; wrapMath of a   *)
(* non-empty text is '$', what toLatexSymbol returns for it, '$'; the      *)
(* empty math group $$ is never returned.                                  *)
(***************************************************************************)
C15_WrapMath ==
    WrapCalled =>
        /\ text = "" => wrapped = "$~$"
        /\ (text # "" /\ SymbolCalled) => wrapped = "$" \o symbol \o "$"
        /\ wrapped # "$$"
        /\ Len(wrapped) >= 3

C15_Witness ==
    /\ WrapCalled
    /\ text = ""
    /\ wrapped = "$~$"

C15_WitnessNonEmpty ==
    /\ WrapCalled
    /\ SymbolCalled
    /\ text = "-Ia"
    /\ wrapped = "$-\\inftya$"

currentTableData == tableData(currentConfig, selectedTableType)

(***************************************************************************)
(* C16: after any sequence of editor operations from the default           *)
(* configurations, the table description passed to the generator is        *)
(* normalized: with N points, arrows and the signs of every expression     *)
(* have length N-1, and values, left values, variation point kinds and the *)
(* point annotations of every expression have length N.                    *)
(***************************************************************************)
C16_DescriptionNormalized ==
    LET d == currentTableData
        N == Len(d.points)
    IN  /\ td = d
        /\ Len(d.arrows) = N - 1
        /\ Len(d.values) = N
        /\ Len(d.variationLeftValues) = N
        /\ Len(d.variationPointTypes) = N
        /\ \A e \in 1..Len(d.expressions) :
               /\ Len(d.expressions[e].signs) = N - 1
               /\ Len(d.expressions[e].pointTypes) = N

C16_Witness ==
    /\ edits = 2
    /\ selectedTableType = "both"
    /\ Len(td.points) = 6
    /\ Len(td.expressions) = 2
    /\ Len(td.expressions[2].signs) = 5
    /\ Len(td.arrows) = 5

C16_WitnessRemoved ==
    /\ edits = 2
    /\ selectedTableType = "sign"
    /\ Len(td.points) = 3
    /\ Len(td.values) = 3
    /\ Len(td.expressions) = 3

(***************************************************************************)
(* C19: each table type has its own editor state: a user action handled    *)
(* while type T is selected leaves the configurations of the other two     *)
(* types as they were, and selecting another type changes no configuration *)
(* at all, so that coming back to a type shows the state that was left.    *)
(***************************************************************************)
C19_IndependentEditorState ==
    [][/\ \A type \in TableTypes \ {selectedTableType} : configs'[type] = configs[type]
       /\ selectedTableType' # selectedTableType => configs' = configs
       /\ td' = tableData(configs'[selectedTableType'], selectedTableType')]_vars

C19_Witness ==
    /\ edits = 3
    /\ selectedTableType = "sign"
    /\ configs["both"] # DEFAULT_CONFIGS["both"]
    /\ configs["sign"] # DEFAULT_CONFIGS["sign"]
    /\ configs["variation"] = DEFAULT_CONFIGS["variation"]
    /\ td = tableData(configs["sign"], "sign")

(***************************************************************************)
(* C20: the number of points never drops below 2: whatever columns are     *)
(* added and removed every configuration keeps at least 2 points, and a    *)
(* removal asked for when there are exactly 2 points (removeColumn, or     *)
(* removePoint of PointsRow) leaves the whole table state as it was.       *)
(***************************************************************************)
C20_AtLeastTwoPoints ==
    [][/\ \A type \in TableTypes : Len(configs'[type].points) >= 2
       /\ (/\ Len(currentConfig.points) = 2
           /\ selectedTableType' = selectedTableType
           /\ Len(configs'[selectedTableType].points) <= 2)
          => (configs' = configs /\ td' = td)]_vars

C20_Witness ==
    /\ edits = 4
    /\ selectedTableType = "both"
    /\ Len(configs["both"].points) = 2
    /\ Len(configs["both"].arrows) = 1
    /\ Len(td.points) = 2

(***************************************************************************)
(* The preview panel: a debounced render of the LaTeX of the current table *)
(* description, and the responses of the render endpoint.                  *)
(***************************************************************************)
\* const latexCode = useMemo(() => generateFullDocument(tableData), ...)
latexCode == generateFullDocument(td)

\* The latexCode of the first render, the one the renderLatex given to
\* refreshTriggerRef closes over: that effect runs once, at mount.
mountLatexCode == generateFullDocument(tableData(DEFAULT_CONFIGS["both"], "both"))

\* The image the endpoint returns for a LaTeX document.
imageOf(latex) == "png:" \o latex

\* clearTimeout(renderTimeoutRef.current), guarded by the ref not being null
clearTimeout(pending, ref) == {t \in pending : t.id # ref}

\* The debounce effect without its two clearTimeout calls.
debounceEffect_NoClear(pending, ref, id, latex) ==
    pending \cup {[id |-> id, latex |-> latex]}

\* The debounce effect when latexCode changed: the cleanup of the last run
\* and the new run both clear the timer of the ref, then
\* setTimeout(() => renderLatex(), 500) with the renderLatex of this render.
debounceEffect(pending, ref, id, latex) ==
    clearTimeout(clearTimeout(pending, ref), ref) \cup {[id |-> id, latex |-> latex]}

\* The preview at mount: the debounce effect has set its first timer.
InitPreview ==
    /\ EditorIdle
    /\ td = tableData(DEFAULT_CONFIGS["both"], "both")
    /\ called = {}
    /\ tabVar = ""
    /\ tabLine = ""
    /\ fullDoc = ""
    /\ snippet = ""
    /\ tabInit = ""
    /\ SymIdle
    /\ AgainIdle
    /\ mounted = TRUE
    /\ memoLatexCode = mountLatexCode
    /\ timers = debounceEffect({}, 0, 1, memoLatexCode)
    /\ renderTimeout = 1
    /\ requests = {}
    /\ issued = 0
    /\ lastIssued = ""
    /\ renderedImage = ""
    /\ appRenderedImage = ""
    /\ loading = FALSE
    /\ error = ""
    /\ ExtraIdle

\* The table type is changed in the application; latexCode changes with the
\* description and the debounce effect runs again.  The timer ids of the
\* browser grow: timer 1 is set at mount, timer k + 1 by change k.
ChangeTableType ==
    /\ mounted
    /\ setTableType(MaxTypeChanges)
    /\ memoLatexCode' = generateFullDocument(td')
    /\ IF memoLatexCode' # memoLatexCode
       THEN /\ timers' = debounceEffect(timers, renderTimeout, edits + 2, memoLatexCode')
            /\ renderTimeout' = edits + 2
       ELSE UNCHANGED <<timers, renderTimeout>>
    /\ UNCHANGED <<mounted, requests, issued, lastIssued, renderedImage, appRenderedImage, loading, error, extraVars>>

\* renderLatex up to its fetch: the request leaves with the latexCode.
startRender(latex) ==
    /\ issued < MaxRequests
    /\ loading' = TRUE
    /\ error' = ""
    /\ issued' = issued + 1
    /\ requests' = requests \cup {[id |-> issued + 1, latex |-> latex]}
    /\ lastIssued' = latex
    /\ UNCHANGED <<renderedImage, appRenderedImage>>

\* A pending timer fires: renderLatex of the render that set the timer.
\* The ref keeps the id of the timer.
TimerFires ==
    \E t \in timers :
        /\ startRender(t.latex)
        /\ timers' = timers \ {t}
        /\ UNCHANGED <<mounted, memoLatexCode, renderTimeout, genVars, symVars, againVars, editorVars, extraVars>>

\* The Refresh button, enabled while nothing is loading: the renderLatex of
\* the first render.
Refresh ==
    /\ mounted
    /\ ~loading
    /\ startRender(mountLatexCode)
    /\ UNCHANGED <<mounted, memoLatexCode, timers, renderTimeout, genVars, symVars, againVars, editorVars, extraVars>>

\* A response with an image, for any request in flight.  The state setters
\* of a panel that was unmounted do nothing; onImageRendered is the
\* application's.
RespondImage ==
    \E r \in requests :
        /\ requests' = requests \ {r}
        /\ appRenderedImage' = imageOf(r.latex)
        /\ IF mounted
           THEN renderedImage' = imageOf(r.latex) /\ loading' = FALSE
           ELSE UNCHANGED <<renderedImage, loading>>
        /\ UNCHANGED <<error, mounted, memoLatexCode, timers, renderTimeout, issued, lastIssued, genVars, symVars, againVars, editorVars, extraVars>>

\* A failed response (or a failed fetch), for any request in flight.
RespondError ==
    \E r \in requests :
        /\ requests' = requests \ {r}
        /\ IF mounted
           THEN error' = "Failed to render" /\ renderedImage' = "" /\ loading' = FALSE
           ELSE UNCHANGED <<error, renderedImage, loading>>
        /\ UNCHANGED <<appRenderedImage, mounted, memoLatexCode, timers, renderTimeout, issued, lastIssued, genVars, symVars, againVars, editorVars, extraVars>>

\* The panel is unmounted (the application renders its small-screen page
\* instead): the cleanup of the debounce effect clears the timer of the ref.
Unmount ==
    /\ mounted
    /\ mounted' = FALSE
    /\ timers' = clearTimeout(timers, renderTimeout)
    /\ UNCHANGED <<memoLatexCode, renderTimeout, requests, issued, lastIssued, renderedImage, appRenderedImage, loading, error, genVars, symVars, againVars, editorVars, extraVars>>

NextPreview ==
    \/ ChangeTableType
    \/ TimerFires
    \/ Refresh
    \/ RespondImage
    \/ RespondError
    \/ Unmount

SpecPreview == InitPreview /\ [][NextPreview]_vars

(***************************************************************************)
(* C17: last input wins in the preview: once no render request is          *)
(* outstanding and the last response was an image, the image shown and the *)
(* image given to the application are the one rendered from the LaTeX of   *)
(* the most recently issued request, in whatever order the responses came. *)
(***************************************************************************)
C17_LastInputWins ==
    (requests = {} /\ lastIssued # "" /\ error = "" /\ renderedImage # "") =>
        /\ renderedImage = imageOf(lastIssued)
        /\ appRenderedImage = imageOf(lastIssued)

\* The cycles the editor's toggles are said to follow.
SignCycle == [s \in Signs |-> IF s = "+" THEN "-" ELSE IF s = "-" THEN "h" ELSE "+"]
PointTypeCycle ==
    [p \in PointTypes |-> IF p = "n" THEN "z" ELSE IF p = "z" THEN "d"
                          ELSE IF p = "d" THEN "t" ELSE "n"]
ArrowCycle == [a \in Arrows |-> IF a = "up" THEN "down" ELSE IF a = "down" THEN "h" ELSE "up"]
KindCycle == [k \in VariationPointTypes |-> IF k = "n" THEN "d" ELSE "n"]

\* Every code of a configuration is in its closed set.
CodesClosed(config) ==
    /\ \A i \in DOMAIN config.arrows : config.arrows[i] \in Arrows
    /\ \A i \in DOMAIN config.variationPointTypes :
           config.variationPointTypes[i] \in VariationPointTypes
    /\ \A e \in DOMAIN config.expressions :
           /\ \A i \in DOMAIN config.expressions[e].signs :
                  config.expressions[e].signs[i] \in Signs
           /\ \A i \in DOMAIN config.expressions[e].pointTypes :
                  config.expressions[e].pointTypes[i] \in PointTypes

\* after is before with one cell moved one step along its cycle, and
\* nothing else changed.
OneCellToggled(before, after) ==
    \/ \E e \in DOMAIN before.expressions, i \in 1..(Len(before.points) - 1) :
           after = [before EXCEPT !.expressions[e].signs[i] = SignCycle[@]]
    \/ \E e \in DOMAIN before.expressions, i \in 1..Len(before.points) :
           after = [before EXCEPT !.expressions[e].pointTypes[i] = PointTypeCycle[@]]
    \/ \E i \in 1..(Len(before.points) - 1) :
           after = [before EXCEPT !.arrows[i] = ArrowCycle[@]]
    \/ \E i \in 1..Len(before.points) :
           after = [before EXCEPT !.variationPointTypes[i] = KindCycle[@]]

(***************************************************************************)
(* C21: the toggles keep every code inside its closed set and move one     *)
(* cell one step along its cycle: + - h for a sign (period 3), n z d t for *)
(* a point annotation (period 4), up down h for an arrow (period 3), n d   *)
(* for a point kind (period 2); a toggle changes no other cell.            *)
(***************************************************************************)
C21_TogglesCycle ==
    [][/\ \A type \in TableTypes : CodesClosed(configs'[type])
       /\ selectedTableType' = selectedTableType =>
              OneCellToggled(currentConfig, configs'[selectedTableType])]_vars

\* The sign table is as it was after toggles only: one cell went through
\* its whole cycle.
C21_Witness ==
    /\ edits = 4
    /\ selectedTableType = "sign"
    /\ configs = DEFAULT_CONFIGS

\* A sequence without its k-th element, and with x put in as its k-th element.
DropAt(seq, k) == SubSeq(seq, 1, k - 1) \o SubSeq(seq, k + 1, Len(seq))
InsertAt(seq, k, x) == SubSeq(seq, 1, k - 1) \o <<x>> \o SubSeq(seq, k, Len(seq))

\* after is before without point k and without the data of point k.
PointRemoved(before, after, k) ==
    /\ after.points = DropAt(before.points, k)
    /\ after.values = DropAt(before.values, k)
    /\ after.variationLeftValues = DropAt(before.variationLeftValues, k)
    /\ after.variationPointTypes = DropAt(before.variationPointTypes, k)
    /\ Len(after.expressions) = Len(before.expressions)
    /\ \A e \in DOMAIN before.expressions :
           after.expressions[e].pointTypes = DropAt(before.expressions[e].pointTypes, k)

\* after is before with a new k-th point that has empty and default data.
PointAdded(before, after, k) ==
    /\ after.points = InsertAt(before.points, k, "")
    /\ after.values = InsertAt(before.values, k, "")
    /\ after.variationLeftValues = InsertAt(before.variationLeftValues, k, "")
    /\ after.variationPointTypes = InsertAt(before.variationPointTypes, k, "n")
    /\ Len(after.expressions) = Len(before.expressions)
    /\ \A e \in DOMAIN before.expressions :
           after.expressions[e].pointTypes = InsertAt(before.expressions[e].pointTypes, k, "n")

(***************************************************************************)
(* C22: a structural edit keeps the data of every surviving point attached *)
(* to it: removing a column removes the value, left value, point kind and  *)
(* point annotations of the removed point and of no other, and adding a    *)
(* column gives the new point empty and default data and leaves the data   *)
(* of every other point where it was.                                      *)
(***************************************************************************)
C22_DataStaysAttached ==
    [][selectedTableType' = selectedTableType =>
         LET before == currentConfig
             after == configs'[selectedTableType]
         IN  /\ Len(after.points) < Len(before.points) =>
                    \E k \in 1..Len(before.points) : PointRemoved(before, after, k)
             /\ Len(after.points) > Len(before.points) =>
                    \E k \in 1..Len(after.points) : PointAdded(before, after, k)]_vars

(***************************************************************************)
(* C29: at a double-bar point that is not the first one, an empty or       *)
(* missing left value is replaced by the value of the point: the token is  *)
(* <inPos>D/ value at the last point and <inPos>D<outPos>/ value / value   *)
(* inside; a left value that is not empty is emitted as given.             *)
(***************************************************************************)
C29_LeftValueFallback ==
    VarCalled =>
        \A i \in PointIdx \ {0} :
            IsDoubleBar(i) =>
                LET left == IF LeftValue(i) = "" THEN Shown(Value(i)) ELSE Shown(LeftValue(i))
                IN  VarTokens[i + 1] =
                        IF i = NPoints - 1 THEN InPos(i) \o "D/ " \o left
                        ELSE InPos(i) \o "D" \o OutPos(i) \o "/ " \o left \o " / " \o Shown(Value(i))

C29_Witness ==
    /\ VarCalled
    /\ NPoints = 3
    /\ td.arrows = <<"up", "up">>
    /\ td.variationPointTypes = <<"n", "d", "d">>
    /\ td.variationLeftValues = <<"", "", "r">>
    /\ td.values = <<"-I", "a", "b">>
    /\ VarTokens[2] = "+D-/ $a$ / $a$"
    /\ VarTokens[3] = "+D/ $r$"

\* The left values are missing altogether.
C29_WitnessMissing ==
    /\ VarCalled
    /\ NPoints = 2
    /\ td.variationLeftValues = << >>
    /\ td.variationPointTypes = <<"n", "d">>
    /\ td.arrows = <<"down">>
    /\ VarTokens[2] = "-D/ $a$"

(***************************************************************************)
(* The rows a full document declares and the rows it draws.                *)
(***************************************************************************)
\* The column specs of the \tkzTabInit call of a document.
DeclaredColumns(doc) ==
    LET from == IndexOf(doc, "\\tkzTabInit")
        call == SubSeq(doc, from, Len(doc))
    IN  Split(SubSeq(call, IndexOf(call, "{") + 1, IndexOf(call, "}{") - 1), " , ")
RowLabels(doc) == Len(DeclaredColumns(doc)) - 1
RowMacros(doc) == Occurrences(doc, "\\tkzTabLine{") + Occurrences(doc, "\\tkzTabVar{")

(***************************************************************************)
(* C30: in the full document of every description the editor produces,     *)
(* whatever the table kind, the number of row labels that \tkzTabInit      *)
(* declares after the variable label is the number of \tkzTabLine and      *)
(* \tkzTabVar calls of the document.                                       *)
(***************************************************************************)
C30_LabelsMatchRows ==
    /\ Occurrences(latexCode, "\\tkzTabInit") = 1
    /\ RowLabels(latexCode) = RowMacros(latexCode)

\* A table of both kinds with two expression rows: three labels, three rows.
C30_Witness ==
    /\ selectedTableType = "both"
    /\ Len(td.expressions) = 2
    /\ RowLabels(latexCode) = 3
    /\ RowMacros(latexCode) = 3

\* A variation-only table: one label, one row.
C30_WitnessVariation ==
    /\ selectedTableType = "variation"
    /\ edits > 0
    /\ RowLabels(latexCode) = 1
    /\ Occurrences(latexCode, "\\tkzTabVar{") = 1

\* A sign-only table after a row was added: two labels, two sign rows.
C30_WitnessSign ==
    /\ selectedTableType = "sign"
    /\ Len(td.expressions) = 2
    /\ RowLabels(latexCode) = 2
    /\ Occurrences(latexCode, "\\tkzTabLine{") = 2

(***************************************************************************)
(* The predefined templates and the template menu.                         *)
(***************************************************************************)
templates ==
    << [id |-> "variation-hatched",
        tableType |-> "variation",
        variable |-> "x",
        points |-> <<"-\\infty", "-2", "0", "+\\infty">>,
        arrows |-> <<"down", "h", "up">>,
        values |-> <<"+\\infty", "0", "0", "+\\infty">>,
        variationLeftValues |-> <<"", "", "", "">>,
        variationPointTypes |-> <<"n", "n", "n", "n">>,
        expressions |-> << [name |-> "f(x)", signs |-> <<"+", "+", "+">>,
                            pointTypes |-> <<"n", "n", "n", "n">>] >>],
       [id |-> "sign-hatched-multi",
        tableType |-> "sign",
        variable |-> "x",
        points |-> <<"-\\infty", "-2", "-1", "0", "+\\infty">>,
        arrows |-> <<"up", "up", "up", "up">>,
        values |-> <<"", "", "", "", "">>,
        variationLeftValues |-> <<"", "", "", "", "">>,
        variationPointTypes |-> <<"n", "n", "n", "n", "n">>,
        expressions |-> << [name |-> "x+1", signs |-> <<"-", "-", "+", "+">>,
                            pointTypes |-> <<"n", "n", "z", "n", "n">>],
                           [name |-> "f'(x)", signs |-> <<"-", "h", "h", "+">>,
                            pointTypes |-> <<"n", "n", "n", "n", "n">>] >>],
       [id |-> "both-double-bar",
        tableType |-> "both",
        variable |-> "x",
        points |-> <<"-\\infty", "\\frac{1}{2}", "1", "\\frac{3}{2}", "+\\infty">>,
        arrows |-> <<"up", "down", "down", "up">>,
        values |-> <<"-\\infty", "1", "-\\infty", "+\\infty", "3", "+\\infty">>,
        variationLeftValues |-> <<"", "", "-\\infty", "+\\infty", "", "">>,
        variationPointTypes |-> <<"n", "n", "d", "n", "n">>,
        expressions |-> << [name |-> "f'(x)", signs |-> <<"+", "-", "-", "+">>,
                            pointTypes |-> <<"n", "z", "d", "z", "n">>] >>],
       [id |-> "sign-multi-row-double-bar",
        tableType |-> "sign",
        variable |-> "x",
        points |-> <<"-\\infty", "0", "1", "+\\infty">>,
        arrows |-> <<"up", "up", "up">>,
        values |-> <<"", "", "", "">>,
        variationLeftValues |-> <<"", "", "", "">>,
        variationPointTypes |-> <<"n", "n", "n", "n">>,
        expressions |-> << [name |-> "g(x)", signs |-> <<"-", "-", "+">>,
                            pointTypes |-> <<"n", "n", "z", "n">>],
                           [name |-> "x^3", signs |-> <<"-", "+", "+">>,
                            pointTypes |-> <<"n", "z", "n", "n">>],
                           [name |-> "f'(x)", signs |-> <<"+", "-", "+">>,
                            pointTypes |-> <<"n", "d", "z", "n">>] >>],
       [id |-> "variation-double-bar",
        tableType |-> "variation",
        variable |-> "x",
        points |-> <<"-\\infty", "0", "1", "+\\infty">>,
        arrows |-> <<"up", "down", "up">>,
        values |-> <<"-\\infty", "+\\infty", "+\\infty", "1", "+\\infty">>,
        variationLeftValues |-> <<"", "+\\infty", "+\\infty", "", "">>,
        variationPointTypes |-> <<"n", "d", "n", "n">>,
        expressions |-> << [name |-> "f(x)", signs |-> <<"+", "+", "+">>,
                            pointTypes |-> <<"n", "n", "n", "n">>] >>] >>

\* templates.filter(t => t.tableType === currentTableType ||
\*                       t.tableType === 'both' || currentTableType === 'both')
filteredTemplates(currentTableType) ==
    {k \in 1..Len(templates) :
        \/ templates[k].tableType = currentTableType
        \/ templates[k].tableType = "both"
        \/ currentTableType = "both"}

\* onClick={() => setIsOpen(!isOpen)} of the menu button
ToggleOpen ==
    /\ isOpen' = ~isOpen
    /\ UNCHANGED <<loaded, genVars, symVars, againVars, editorVars, previewVars, proxyVars>>

\* onClick={() => setIsOpen(false)} of the backdrop, rendered while open
CloseBackdrop ==
    /\ isOpen
    /\ isOpen' = FALSE
    /\ UNCHANGED <<loaded, genVars, symVars, againVars, editorVars, previewVars, proxyVars>>

\* handleSelect(template), from a button of the open dropdown
handleSelect ==
    /\ isOpen
    /\ \E k \in filteredTemplates(selectedTableType) : loaded' = << templates[k] >>
    /\ isOpen' = FALSE
    /\ UNCHANGED <<genVars, symVars, againVars, editorVars, previewVars, proxyVars>>

NextTemplates ==
    \/ SelectTableType(MaxKindChanges)
    \/ CloseBackdrop
    \/ ToggleOpen
    \/ handleSelect

SpecTemplates == InitEditor /\ [][NextTemplates]_vars

\* The lengths the description invariants ask of a table of N points.
LengthsNormalized(config) ==
    LET N == Len(config.points)
    IN  /\ Len(config.arrows) = N - 1
        /\ Len(config.values) = N
        /\ Len(config.variationLeftValues) = N
        /\ Len(config.variationPointTypes) = N
        /\ \A e \in DOMAIN config.expressions :
               /\ Len(config.expressions[e].signs) = N - 1
               /\ Len(config.expressions[e].pointTypes) = N

(***************************************************************************)
(* C28: every predefined template the menu hands over satisfies the        *)
(* description invariants: with N points, arrows and each row's signs have *)
(* N-1 entries, values, left values, point kinds and each row's point      *)
(* annotations have N entries, and every code is of its closed set.        *)
(***************************************************************************)
C28_TemplatesNormalized ==
    \A k \in 1..Len(loaded) : LengthsNormalized(loaded[k]) /\ CodesClosed(loaded[k])

(***************************************************************************)
(* C23: automatic rendering is debounced.  At most one timer is pending,   *)
(* and it is the one for the current LaTeX; no timer is pending once the   *)
(* panel is unmounted; every change of the LaTeX leaves exactly the new    *)
(* timer pending (the old one is cancelled); and the request a timer sends *)
(* when it fires carries the LaTeX that is still the current one.          *)
(***************************************************************************)
C23_Debounced ==
    /\ [](/\ Cardinality(timers) <= 1
          /\ \A t \in timers : t.latex = memoLatexCode /\ t.id = renderTimeout
          /\ ~mounted => timers = {})
    /\ [][memoLatexCode' # memoLatexCode =>
              (timers' = {[id |-> renderTimeout', latex |-> memoLatexCode']} /\ renderTimeout' # renderTimeout)]_vars
    /\ [][(timers' # timers /\ issued' = issued + 1) =>
              (timers' = {} /\ lastIssued' = memoLatexCode /\ UNCHANGED <<td, memoLatexCode>>)]_vars

\* The table changed before the first timer fired: the only request sent so
\* far is the one of the second timer, for the new LaTeX.
C23_Witness ==
    /\ edits = 1
    /\ issued = 1
    /\ mounted
    /\ timers = {}
    /\ lastIssued = memoLatexCode
    /\ lastIssued = latexCode
    /\ lastIssued # mountLatexCode

\* The panel was unmounted while a timer was pending: nothing was sent.
C23_WitnessUnmounted ==
    /\ ~mounted
    /\ edits = 1
    /\ issued = 0
    /\ timers = {}

(***************************************************************************)
(* C24: a render request that Refresh sends (a request that no timer       *)
(* sent) carries the LaTeX of the table data as it is at the click.        *)
(***************************************************************************)
C24_RefreshSendsCurrent ==
    [][(issued' = issued + 1 /\ timers' = timers) => lastIssued' = memoLatexCode]_vars

(***************************************************************************)
(* C25: the loading flag of a mounted preview is true whenever a render    *)
(* request is in flight.                                                   *)
(***************************************************************************)
C25_LoadingWhileInFlight ==
    (mounted /\ requests # {}) => loading

(***************************************************************************)
(* The render proxy: POST /api/render.  Each request runs the handler from *)
(* one await to the next; the requests interleave at the awaits.           *)
(***************************************************************************)
\* The request bodies: no latex, or a document.
LatexBodies == {"", "doc"}
\* What pdflatex printed (stderr || stdout).
CompilerOutputs == {"", "! Undefined control sequence."}
\* How a spawned process ends: it closes with the exit code 0 or with a
\* non-zero code (1), or it emits 'error' because it could not be spawned.
SpawnError == -2
ExitCodes == {0, 1}
ProcessEnds == ExitCodes \cup {SpawnError}

\* execCommand that rejects every non-zero exit code.
execCommand_ExitCodeDecides(code, allowNonZeroExit) ==
    IF code = 0 THEN "resolve" ELSE "reject"

\* execCommand: proc.on('close') resolves if (code === 0 || allowNonZeroExit)
\* and rejects otherwise; proc.on('error') rejects.
execCommand(code, allowNonZeroExit) ==
    IF code # SpawnError /\ (code = 0 \/ allowNonZeroExit) THEN "resolve" ELSE "reject"

\* The message of the error execCommand rejects with.
commandError(code, out) ==
    IF code = SpawnError THEN "spawn failed"
    ELSE "Command failed with code 1: " \o out
UUIDs == 1..MaxJobs

\* randomUUID that returns the same id every time.
randomUUID_Fixed(taken) == {1}

\* randomUUID(): an id that was not returned before.  Which one does not
\* matter to the handler, so the model takes the first.
randomUUID(taken) == {Min(UUIDs \ taken)}

newJob(latex) ==
    [latex |-> latex, pc |-> "received", jobId |-> 0, exitCode |-> -1, output |-> "",
     message |-> "", status |-> 0, success |-> FALSE, image |-> "", details |-> "",
     error |-> "", removed |-> "no", cairoExit |-> -1]

dirFiles(dir) == {f \in files : f[1] = dir}

\* What a step of the proxy leaves alone.
proxyRest == <<genVars, symVars, againVars, editorVars, previewVars, templateVars>>

\* An await rejects or the handler throws: the catch block is entered with
\* the error; the constants of the try block are out of scope there.
throw(j, id, message) ==
    [jobs EXCEPT ![j].pc = "catch", ![j].jobId = id, ![j].message = message,
                 ![j].exitCode = -1, ![j].output = ""]

\* A request arrives.  removed tells whether the last rm of the request
\* removed the work directory ("no": rm was not called).
Receive ==
    /\ Len(jobs) < MaxJobs
    /\ \E latex \in LatexBodies : jobs' = Append(jobs, newJob(latex))
    /\ UNCHANGED <<workDirs, files>>
    /\ UNCHANGED proxyRest

\* if (!latex) return res.status(400).json({ error: 'LaTeX code is required' })
Reject(j) ==
    /\ j \in DOMAIN jobs
    /\ jobs[j].pc = "received"
    /\ jobs[j].latex = ""
    /\ jobs' = [jobs EXCEPT ![j].pc = "done", ![j].status = 400,
                            ![j].error = "LaTeX code is required"]
    /\ UNCHANGED <<workDirs, files>>
    /\ UNCHANGED proxyRest

\* const jobId = randomUUID(); ... await mkdir(workDir, { recursive: true })
MakeDir(j) ==
    /\ j \in DOMAIN jobs
    /\ jobs[j].pc = "received"
    /\ jobs[j].latex # ""
    /\ \E id \in randomUUID({jobs[k].jobId : k \in 1..Len(jobs)} \ {0}) :
         \/ /\ jobs' = [jobs EXCEPT ![j].jobId = id, ![j].pc = "write"]
            /\ workDirs' = workDirs \cup {id}
         \/ /\ jobs' = throw(j, id, "mkdir failed")
            /\ UNCHANGED workDirs
    /\ UNCHANGED files
    /\ UNCHANGED proxyRest

\* await writeFile(texFile, latex, 'utf-8')
WriteTex(j) ==
    /\ j \in DOMAIN jobs
    /\ jobs[j].pc = "write"
    /\ \/ /\ jobs[j].jobId \in workDirs
          /\ files' = files \cup {<<jobs[j].jobId, "document.tex">>}
          /\ jobs' = [jobs EXCEPT ![j].pc = "pdflatex"]
       \/ /\ jobs' = throw(j, jobs[j].jobId, "write failed")
          /\ UNCHANGED files
    /\ UNCHANGED workDirs
    /\ UNCHANGED proxyRest

\* execCommand(PDFLATEX, ..., workDir, true): the process ends in any way,
\* having written document.pdf or not, and having printed something or not.
RunPdflatex(j) ==
    /\ j \in DOMAIN jobs
    /\ jobs[j].pc = "pdflatex"
    /\ \E code \in ProcessEnds, out \in CompilerOutputs, pdf \in BOOLEAN :
         /\ code = SpawnError => (out = "" /\ ~pdf)
         /\ jobs' = IF execCommand(code, TRUE) = "resolve"
                    THEN [jobs EXCEPT ![j].pc = "check", ![j].exitCode = code, ![j].output = out]
                    ELSE throw(j, jobs[j].jobId, commandError(code, out))
         /\ files' = IF pdf /\ jobs[j].jobId \in workDirs
                     THEN files \cup {<<jobs[j].jobId, "document.pdf">>} ELSE files
    /\ UNCHANGED workDirs
    /\ UNCHANGED proxyRest

\* const pdfExists = await fileExists(pdfFile); if (!pdfExists) throw ...
\* The output of the compiler is not used after this test.
CheckPdf(j) ==
    /\ j \in DOMAIN jobs
    /\ jobs[j].pc = "check"
    /\ jobs' = IF <<jobs[j].jobId, "document.pdf">> \in files
               THEN [jobs EXCEPT ![j].pc = "pdftocairo", ![j].output = ""]
               ELSE throw(j, jobs[j].jobId, "LaTeX compilation failed: " \o jobs[j].output)
    /\ UNCHANGED <<workDirs, files>>
    /\ UNCHANGED proxyRest

\* execCommand(PDFTOCAIRO, ..., workDir): allowNonZeroExit is false.
\* cairoExit keeps how the converter ended.
RunPdftocairo(j) ==
    /\ j \in DOMAIN jobs
    /\ jobs[j].pc = "pdftocairo"
    /\ \E code \in ProcessEnds, png \in BOOLEAN :
         /\ code # 0 => ~png
         /\ jobs' = IF execCommand(code, FALSE) = "resolve"
                    THEN [jobs EXCEPT ![j].pc = "read", ![j].cairoExit = code]
                    ELSE [throw(j, jobs[j].jobId, commandError(code, "")) EXCEPT ![j].cairoExit = code]
         /\ files' = IF png /\ jobs[j].jobId \in workDirs
                     THEN files \cup {<<jobs[j].jobId, "document.png">>} ELSE files
    /\ UNCHANGED workDirs
    /\ UNCHANGED proxyRest

\* const pngBuffer = await readFile(`${pngFile}.png`)
ReadPng(j) ==
    /\ j \in DOMAIN jobs
    /\ jobs[j].pc = "read"
    /\ \/ /\ <<jobs[j].jobId, "document.png">> \in files
          /\ jobs' = [jobs EXCEPT ![j].pc = "rm",
                                  ![j].image = "data:image/png;base64," \o "png:" \o jobs[j].latex]
       \/ jobs' = throw(j, jobs[j].jobId, "read failed")
    /\ UNCHANGED <<workDirs, files>>
    /\ UNCHANGED proxyRest

\* await rm(workDir, { recursive: true, force: true }); res.json({ success: true, image })
\* or rm rejects and the catch block is entered.
CleanUpAndRespond(j) ==
    /\ j \in DOMAIN jobs
    /\ jobs[j].pc = "rm"
    /\ \/ /\ workDirs' = workDirs \ {jobs[j].jobId}
          /\ files' = files \ dirFiles(jobs[j].jobId)
          /\ jobs' = [jobs EXCEPT ![j].pc = "done", ![j].status = 200, ![j].success = TRUE,
                                  ![j].removed = "yes"]
       \/ /\ jobs' = throw(j, jobs[j].jobId, "rm failed")
          /\ UNCHANGED <<workDirs, files>>
    /\ UNCHANGED proxyRest

\* catch (error): try { await rm(...) } catch { }; res.status(500).json(...)
CatchAndRespond(j) ==
    /\ j \in DOMAIN jobs
    /\ jobs[j].pc = "catch"
    /\ \E ok \in BOOLEAN :
         /\ IF ok THEN /\ workDirs' = workDirs \ {jobs[j].jobId}
                       /\ files' = files \ dirFiles(jobs[j].jobId)
            ELSE UNCHANGED <<workDirs, files>>
         /\ jobs' = [jobs EXCEPT ![j].pc = "done", ![j].status = 500,
                                 ![j].error = "Failed to render LaTeX",
                                 ![j].details = jobs[j].message, ![j].message = "",
                                 ![j].removed = IF ok THEN "yes" ELSE "failed"]
    /\ UNCHANGED proxyRest

InitProxy == InitEditor

NextProxy ==
    \/ Receive
    \/ \E j \in 1..MaxJobs :
         \/ Reject(j)
         \/ MakeDir(j)
         \/ WriteTex(j)
         \/ RunPdflatex(j)
         \/ CheckPdf(j)
         \/ RunPdftocairo(j)
         \/ ReadPng(j)
         \/ CleanUpAndRespond(j)
         \/ CatchAndRespond(j)

SpecProxy == InitProxy /\ [][NextProxy]_vars

(***************************************************************************)
(* The work directories of the proxy.                                      *)
(***************************************************************************)
\* The requests that created a work directory and have responded.
Responded == {j \in DOMAIN jobs : jobs[j].pc = "done" /\ jobs[j].status # 400}
\* The requests between the creation of their directory and their cleanup.
Working == {j \in DOMAIN jobs : jobs[j].pc \in {"write", "pdflatex", "check", "pdftocairo", "read", "rm"}}

\* The work directories of the requests are distinct and a request that is
\* at work has its directory and the files it wrote so far.
OwnWorkDirs ==
    /\ \A j, k \in DOMAIN jobs : (j # k /\ jobs[j].jobId # 0) => jobs[j].jobId # jobs[k].jobId
    /\ \A j \in Working :
           /\ jobs[j].jobId \in workDirs
           /\ jobs[j].pc \notin {"write"} => <<jobs[j].jobId, "document.tex">> \in files
           /\ jobs[j].pc \in {"pdftocairo", "read", "rm"} => <<jobs[j].jobId, "document.pdf">> \in files
           /\ jobs[j].pc = "rm" => <<jobs[j].jobId, "document.png">> \in files

C26_WitnessBothDone ==
    /\ Len(jobs) = 2
    /\ jobs[1].status = 200
    /\ jobs[2].status = 500
    /\ jobs[1].jobId # 0 /\ jobs[2].jobId # 0
    /\ jobs[2].removed = "yes"
    /\ workDirs = {}
    /\ files = {}

\* The removal failed on the success path: 500, and the directory is left.
C26_WitnessLeft ==
    /\ Len(jobs) >= 1
    /\ jobs[1].status = 500
    /\ jobs[1].details = "rm failed"
    /\ jobs[1].removed = "failed"
    /\ jobs[1].jobId \in workDirs

(***************************************************************************)
(* C27: the proxy decides that the compilation succeeded by the existence  *)
(* of document.pdf, not by the exit code of pdflatex.  Whatever the exit   *)
(* code, a request goes on to the conversion if the PDF is there, and to   *)
(* a 500 response whose details are the compiler's output if it is not;    *)
(* no exit code of pdflatex rejects; a non-zero exit code of pdftocairo    *)
(* ends in a 500 response; every thrown error ends in a 500 response with  *)
(* its message as details; a request with no latex is answered 400 and     *)
(* has neither a work directory nor a file.                                *)
(***************************************************************************)
C27_PdfDecides ==
    /\ [](\A j \in DOMAIN jobs :
            /\ jobs[j].pc \in {"pdftocairo", "read", "rm"} =>
                   (jobs[j].exitCode \in ExitCodes /\ <<jobs[j].jobId, "document.pdf">> \in files)
            /\ jobs[j].status = 200 => (jobs[j].success /\ jobs[j].image # "" /\ jobs[j].cairoExit = 0)
            /\ (jobs[j].pc = "done" /\ jobs[j].cairoExit \notin {-1, 0}) => jobs[j].status = 500
            /\ (jobs[j].pc = "done" /\ jobs[j].latex = "") => jobs[j].status = 400
            /\ jobs[j].latex = "" => (jobs[j].jobId = 0 /\ jobs[j].pc \in {"received", "done"})
            /\ jobs[j].status = 400 => jobs[j].latex = "")
    /\ [][\A j \in DOMAIN jobs :
            /\ (jobs[j].pc = "pdflatex" /\ jobs'[j].pc = "catch") => jobs'[j].message = "spawn failed"
            /\ (jobs[j].pc = "check" /\ jobs'[j].pc # "check") =>
                   IF <<jobs[j].jobId, "document.pdf">> \in files
                   THEN jobs'[j].pc = "pdftocairo"
                   ELSE /\ jobs'[j].pc = "catch"
                        /\ jobs'[j].message = "LaTeX compilation failed: " \o jobs[j].output
            /\ (jobs[j].pc = "catch" /\ jobs'[j].pc # "catch") =>
                   /\ jobs'[j].pc = "done"
                   /\ jobs'[j].status = 500
                   /\ jobs'[j].details = jobs[j].message
                   /\ ~jobs'[j].success
            /\ (jobs[j].latex = "" /\ jobs'[j] # jobs[j]) => UNCHANGED <<workDirs, files>>]_vars

\* pdflatex ended with a non-zero exit code, the PDF was there, and the
\* request was answered 200 with an image.
C27_Witness ==
    /\ Len(jobs) >= 1
    /\ jobs[1].exitCode = 1
    /\ jobs[1].status = 200
    /\ jobs[1].success
    /\ jobs[1].image = "data:image/png;base64,png:doc"

\* pdflatex ended with the exit code 0 and no PDF: 500 with the output.
C27_WitnessNoPdf ==
    /\ Len(jobs) >= 1
    /\ jobs[1].status = 500
    /\ jobs[1].details = "LaTeX compilation failed: ! Undefined control sequence."

\* No latex: 400; pdftocairo failed for the other request: 500.
C27_WitnessRejected ==
    /\ Len(jobs) = 2
    /\ jobs[1].status = 400
    /\ jobs[2].cairoExit = 1
    /\ jobs[2].status = 500

====
